---- MODULE Spec2Model ----
(***************************************************************************)
(* HTMLCache (src/app/utils/cache.py): a lock-protected, bounded LRU cache *)
(* of rendered HTML with TTL expiry and mtime-based staleness.             *)
(*                                                                         *)
(* Every public operation does all its work inside one hold of the         *)
(* re-entrant lock, so each operation is one atomic action here.           *)
(*                                                                         *)
(* Modelling conventions                                                   *)
(*   Optional[T]   None is <<>>, a present value v is <<v>>                 *)
(*   str           a run-length sequence of <<code point, count>> runs     *)
(*   time, mtime   integers (seconds); time.time() is the variable now     *)
(*   OrderedDict   a sequence of entries, oldest (LRU head) first          *)
(***************************************************************************)
EXTENDS Integers, Sequences, FiniteSets

VARIABLES
    max_size,       \* HTMLCache.max_size
    default_ttl,    \* HTMLCache.default_ttl
    max_memory_mb,  \* HTMLCache.max_memory_mb
    cache,          \* HTMLCache._cache, in OrderedDict order
    current_size,   \* HTMLCache._current_size
    cache_enabled,  \* settings.cache_enabled
    now,            \* the value time.time() returns
    last,           \* history: the operation that completed last
    recency,        \* history: present keys by last hit or set, oldest first
    setlog,         \* history: the run of sets of distinct new keys so far
    held,           \* history: keys stored before the switch was last turned
                    \*          off, and neither removed nor replaced since
    threads,        \* each thread's call in progress: position and locals
    lock,           \* the owner of HTMLCache._lock, or NoThread
    written,        \* history: per key, the content of the last completed set
    raceable,       \* history: the threads whose set races with the set that
                    \*          held the lock last
    file,           \* per path, the markdown file: its st_mtime and its text
    finder,         \* the PortFinder, its call in progress and the ports
                    \* that are free
    watcher,        \* the FileWatcher and the observers it has created
    scanner,        \* the MarkdownScanner, the tree it walks and its call
                    \* in progress
    routes,         \* the files the routes serve and their last response
    sockets         \* the ConnectionManager, its clients and its tasks

vars == <<max_size, default_ttl, max_memory_mb, cache, current_size,
          cache_enabled, now, last, recency, setlog, held, threads, lock,
          written, raceable, file, finder, watcher, scanner, routes,
          sockets>>

\* the utilities beside the cache
util_vars == <<finder, watcher, scanner, routes, sockets>>

\* the cache, its threads and the files they render
cache_vars == <<max_size, default_ttl, max_memory_mb, cache, current_size,
                cache_enabled, now, last, recency, setlog, held, threads,
                lock, written, raceable, file>>

\* what the constructor fixes, the switch, the clock and the files
cfg_vars == <<max_size, default_ttl, max_memory_mb, cache_enabled, now, file,
              util_vars>>

\* the history of the operations taken as one step each
hist_vars == <<last, recency, setlog, held>>

\* the threads, the lock and the files the threads read
thread_vars == <<threads, lock, written, raceable, file, util_vars>>

----------------------------------------------------------------------------
(* Optional values and Python truthiness                                   *)

None == <<>>

Some(v) == <<v>>

\* bool(x) of an Optional number: None and 0 are falsy
Truthy(opt) == opt # None /\ opt[1] # 0

\* `a or b` on an Optional number a and a number b
OrElse(opt, dflt) == IF Truthy(opt) THEN opt[1] ELSE dflt

----------------------------------------------------------------------------
(* Strings and their UTF-8 encoding                                        *)

\* the string made of n copies of code point cp
Repeat(cp, n) == IF n = 0 THEN <<>> ELSE << <<cp, n>> >>

\* bytes of one code point in UTF-8
Utf8Width(cp) ==
    IF cp < 128 THEN 1
    ELSE IF cp < 2048 THEN 2
    ELSE IF cp < 65536 THEN 3
    ELSE 4

RECURSIVE Utf8Len(_)
\* len(content.encode("utf-8"))
Utf8Len(content) ==
    IF content = <<>> THEN 0
    ELSE Utf8Width(Head(content)[1]) * Head(content)[2] + Utf8Len(Tail(content))

----------------------------------------------------------------------------
(* Configuration                                                           *)

\* settings.cache_ttl
cache_ttl == 300

\* settings.max_file_size
max_file_size == 10 * 1024 * 1024

\* the memory budget in bytes
MaxMemoryBytes == max_memory_mb * 1024 * 1024

\* mutant: the switch is not consulted
DisabledNever == FALSE

\* `not settings.cache_enabled`, the first test of get and of set
Disabled == ~cache_enabled

----------------------------------------------------------------------------
(* Bounds of the exploration                                               *)

\* get stops hitting an entry whose access_count has reached MaxAccess
MaxAccess == 1

\* the clock stops at MaxTime
MaxTime == 2

\* set is not explored once _current_size is more than MaxDrift bytes off
MaxDrift == 2

\* a thread does not call set once _current_size is more than MaxThreadDrift
\* bytes off
MaxThreadDrift == 0

\* a file is not modified any more once its st_mtime is MaxMtime
MaxMtime == 2

Keys == {"A", "B", "C", "D"}

FreshKeys == {"A", "B"}

HalfMiB == 524288

\* 1 byte, half the budget of 1 MB, and 2 bytes more than the whole budget
Contents == {Repeat(97, 1), Repeat(97, HalfMiB), Repeat(233, HalfMiB + 1)}

\* 1 byte, and 1 byte more than the whole budget
OversizedContents == {Repeat(97, 1), Repeat(97, 2 * HalfMiB + 1)}

\* the empty string, and 2 bytes more than the whole budget
FreshContents == {Repeat(97, 0), Repeat(233, HalfMiB + 1)}

MaxSizes == {1, 3}

FreshMaxSizes == {1, 2}

MemoryMbs == {1}

\* the mtimes entries are stored with, and those get is called with
SetMtimes == {-1, 1}

GetMtimes == {None, Some(-1), Some(0), Some(1), Some(2)}

\* the default_ttl arguments of the constructor
DefaultTtlArgs == {None, Some(0), Some(1)}

\* the ttl arguments of set
TtlArgs == {None, Some(0), Some(1)}

\* the threads that call the cache, and the value of lock when it is free
Threads == {"t1", "t2"}

NoThread == "none"

\* a thread that is not in a call
Idle ==
    [op |-> "", pc |-> "idle", key |-> "", content |-> None, mtime |-> None,
     victim |-> "", popped |-> 0, scratch |-> <<>>, result |-> None,
     raced |-> FALSE, exact |-> FALSE, expect |-> None,
     caller |-> "", text |-> None, html |-> None, cached |-> None,
     fresh |-> FALSE, skipped |-> {}, error |-> "", use_cache |-> TRUE,
     route |-> "", status |-> 0, flag |-> FALSE]

ThreadMaxSizes == {1, 2}

\* the files that are rendered and the texts they are saved with: "", "a", "b"
RenderPaths == {"A"}

Texts == {Repeat(97, 0), Repeat(97, 1), Repeat(98, 1)}

\* the arguments of PortFinder: start_port below, at the lower end and at
\* the upper end of the accepted range
StartPorts == {1023, 1024, 65535}

AttemptCounts == {0, 2}

\* preferred_ports: not given, empty, two ports of the range, a privileged
\* port, and a number that is no port before a port
PreferredLists ==
    {<<>>, << <<>> >>, << <<1025, 1024>> >>, << <<80>> >>,
     << <<65536, 1024>> >>}

\* the ports that may be free
ProbePorts == {80, 1024, 1025, 8000, 65535}

\* the observers one FileWatcher creates at most
MaxObservers == 3

\* the directories below base_dir, each the sequence of the names on the
\* way from base_dir: docs, docs/deep, .git and docs/.git
Dirs == {<<>>, <<"docs">>, <<"docs", "deep">>, <<".git">>, <<"docs", ".git">>}

\* a file of `size` bytes; stat_ok is whether stat() works on it (it does
\* not on a dangling link), open_ok whether it can be opened for reading
File(dir, name, size, stat_ok, open_ok) ==
    [dir |-> dir, name |-> name, size |-> size, stat_ok |-> stat_ok,
     open_ok |-> open_ok]

\* a small file that reads
Plain(dir, name) == File(dir, name, 1, TRUE, TRUE)

\* the places of files; a name is the sequence of its pieces, a.md being
\* <<"a", ".md">>
Places ==
    {<<<<>>, <<"a", ".md">>>>, <<<<>>, <<"n", ".txt">>>>,
     <<<<"docs">>, <<"b", ".md">>>>, <<<<"docs", "deep">>, <<"c", ".md">>>>,
     <<<<".git">>, <<"g", ".md">>>>, <<<<"docs", ".git">>, <<"h", ".md">>>>}

\* what one file may be like: small, of the largest size taken, one byte
\* larger, a dangling link, unreadable
Variants(dir, name) ==
    {Plain(dir, name),
     File(dir, name, max_file_size, TRUE, TRUE),
     File(dir, name, max_file_size + 1, TRUE, TRUE),
     File(dir, name, 0, FALSE, FALSE),
     File(dir, name, 1, TRUE, FALSE)}

\* the trees scanned: small readable files in every place but one
Trees ==
    UNION {{{Plain(q[1], q[2]) : q \in Places \ {p}} \cup {f} :
                f \in Variants(p[1], p[2])} : p \in Places}

\* the arguments max_depth and exclude_dirs of MarkdownScanner
MaxDepths == {None, Some(0), Some(1)}

ExcludeLists == {None, Some({}), Some({"docs"}), Some({"deep"})}

\* base_dir is /srv/base. A path is the sequence of its segments, a segment
\* the sequence of the pieces of a name: a.md is <<"a", ".md">>, the parent
\* directory <<"..">>; the root of an absolute path is the segment <<"/">>
BaseDir == << <<"srv">>, <<"base">> >>

\* the directories, the places of files and the link /srv/base/link.md to
\* /srv/secret.md
Directories ==
    {<<>>, << <<"srv">> >>, BaseDir, BaseDir \o << <<"docs">> >>}

InsideFile == BaseDir \o << <<"a", ".md">> >>

OutsideFile == << <<"srv">>, <<"secret", ".md">> >>

OutsidePlain == << <<"srv">>, <<"passwd">> >>

LinkPath == BaseDir \o << <<"link", ".md">> >>

LinkTarget(path) == OutsideFile

FilePlaces == {InsideFile, OutsideFile, OutsidePlain}

\* the file_path of a request: a.md, docs/../a.md, ../secret.md,
\* docs/../../secret.md, ../passwd, /srv/secret.md, link.md, docs, b.md
RequestPaths ==
    {<< <<"a", ".md">> >>,
     << <<"docs">>, <<"..">>, <<"a", ".md">> >>,
     << <<"..">>, <<"secret", ".md">> >>,
     << <<"docs">>, <<"..">>, <<"..">>, <<"secret", ".md">> >>,
     << <<"..">>, <<"passwd">> >>,
     << <<"/">>, <<"srv">>, <<"secret", ".md">> >>,
     << <<"link", ".md">> >>,
     << <<"docs">> >>,
     << <<"b", ".md">> >>}

RouteNames == {"get_file_content", "export_html", "download_markdown"}

\* every file is there, the link is not, and no request has been answered
NoRoutes ==
    [files |-> FilePlaces, link |-> FALSE,
     last |-> [route |-> "", file_path |-> <<>>, status |-> 0,
               served |-> <<>>]]

\* no ConnectionManager has been constructed
NoSockets == [pc |-> "none"]

\* the WebSocket connections of the exploration
Connections == {"ws1", "ws2"}

\* the file events the watcher thread dispatches, numbered in the order of
\* their dispatch
MaxEvents == 2

\* JSON values: a string, a number or null (None in Python); JsonMissing
\* stands for a key the object does not have
JsonString(s) == [t |-> "str", s |-> s, n |-> 0]

JsonNumber(n) == [t |-> "num", s |-> "", n |-> n]

JsonNull == [t |-> "null", s |-> "", n |-> 0]

JsonMissing == [t |-> "missing", s |-> "", n |-> 0]

NoMembers == [type |-> JsonMissing, timestamp |-> JsonMissing, channel |-> JsonMissing]

\* a text frame: text that is not JSON, JSON that is no object, or an object
\* with or without the members type, timestamp and channel
Frames ==
    {[json |-> kind, members |-> NoMembers] :
        kind \in {"invalid", "array", "string", "number", "null", "true"}}
    \cup {[json |-> "object",
           members |-> [type |-> type, timestamp |-> timestamp, channel |-> channel]] :
            type \in {JsonString("ping"), JsonString("subscribe"),
                      JsonString("reload"), JsonNumber(1), JsonNull, JsonMissing},
            timestamp \in {JsonNumber(7), JsonString("now"), JsonNull, JsonMissing},
            channel \in {JsonString("files"), JsonNull, JsonMissing}}

\* the connection task of a socket and the task of a file event
ConnectionTask(websocket) == [kind |-> "connection", websocket |-> websocket, event |-> 0]

EventTask(event) == [kind |-> "event", websocket |-> "", event |-> event]

\* no PortFinder, FileWatcher or MarkdownScanner has been constructed
NoFinder == [pc |-> "none"]

NoWatcher == [pc |-> "none"]

NoScanner == [pc |-> "none"]

\* the thread that renders when one thread does
Renderer == "t1"

\* the st_mtime a file starts with: one second before the epoch, or after it
SerialMtimes == {-1, 1}

ThreadGetMtimes == {None, Some(2)}

\* the max_size arguments the constructor is given, valid or not
AnyMaxSizes == {-1, 0, 2}

\* one byte and two bytes
SmallContents == {Repeat(97, 1), Repeat(233, 1)}

SwitchGetMtimes == {None, Some(2)}

SwitchTtlArgs == {Some(1)}

----------------------------------------------------------------------------
(* CacheEntry                                                              *)

\* CacheEntry.__init__
CacheEntry(key, content, file_mtime, ttl) ==
    [key |-> key, content |-> content, created_at |-> now,
     access_count |-> 0, file_mtime |-> file_mtime, ttl |-> ttl]

\* CacheEntry.is_expired
is_expired(entry) == (now - entry.created_at) > entry.ttl

\* mutant: an equal mtime counts as stale
is_stale_inclusive(entry, current_mtime) == current_mtime >= entry.file_mtime

\* CacheEntry.is_stale
is_stale(entry, current_mtime) == current_mtime > entry.file_mtime

\* mutant: a hit is not counted
touch_uncounted(entry) == entry

\* mutant: a hit restarts the ttl (sliding expiration)
touch_sliding(entry) ==
    [entry EXCEPT !.access_count = @ + 1, !.created_at = now]

\* CacheEntry.touch
touch(entry) == [entry EXCEPT !.access_count = @ + 1]

----------------------------------------------------------------------------
(* The ordered dictionary                                                  *)

KeysOf(q) == {q[i].key : i \in 1..Len(q)}

KeySeq(q) == [i \in 1..Len(q) |-> q[i].key]

Has(q, key) == key \in KeysOf(q)

IndexOf(q, key) == CHOOSE i \in 1..Len(q) : q[i].key = key

Lookup(q, key) == q[IndexOf(q, key)]

\* OrderedDict.pop(key)
Pop(q, key) == SelectSeq(q, LAMBDA e : e.key # key)

\* OrderedDict.move_to_end(key)
MoveToEnd(q, key) == Append(Pop(q, key), Lookup(q, key))

\* mutant: a present key keeps the entry it has
SetItemIfAbsent(q, key, entry) ==
    IF Has(q, key) THEN q ELSE Append(q, entry)

\* mutant: a present key's entry is updated in place, keeping its metadata
SetItemKeepMeta(q, key, entry) ==
    IF Has(q, key)
    THEN [q EXCEPT ![IndexOf(q, key)] =
            [entry EXCEPT !.access_count = Lookup(q, key).access_count,
                          !.created_at = Lookup(q, key).created_at]]
    ELSE Append(q, entry)

\* OrderedDict.__setitem__: a present key keeps its position, a new one is
\* appended
SetItem(q, key, entry) ==
    IF Has(q, key)
    THEN [q EXCEPT ![IndexOf(q, key)] = entry]
    ELSE Append(q, entry)

RECURSIVE SumBytes(_)
\* the bytes actually held: sum of len(utf8(content)) over the entries
SumBytes(q) ==
    IF q = <<>> THEN 0 ELSE Utf8Len(Head(q).content) + SumBytes(Tail(q))

RECURSIVE SumAccess(_)
SumAccess(q) ==
    IF q = <<>> THEN 0 ELSE Head(q).access_count + SumAccess(Tail(q))

----------------------------------------------------------------------------
(* HTMLCache                                                               *)

\* HTMLCache._evict applied to the pair <<_cache, _current_size>>
Evict(q, size, key) ==
    IF Has(q, key)
    THEN <<Pop(q, key), size - Utf8Len(Lookup(q, key).content)>>
    ELSE <<q, size>>

\* mutant: the entry count is compared with > instead of >=
MustEvictOffByOne(q, size, entry_size) ==
    \/ Len(q) > max_size
    \/ size + entry_size > max_memory_mb * 1024 * 1024

\* the condition of the while loop of set
MustEvict(q, size, entry_size) ==
    \/ Len(q) >= max_size
    \/ size + entry_size > max_memory_mb * 1024 * 1024

RECURSIVE EvictLoopNewest(_, _, _)
\* mutant: the loop evicts the newest key instead of the oldest
EvictLoopNewest(q, size, entry_size) ==
    IF MustEvict(q, size, entry_size) /\ q # <<>>
    THEN LET r == Evict(q, size, q[Len(q)].key)
         IN  EvictLoopNewest(r[1], r[2], entry_size)
    ELSE <<q, size>>

RECURSIVE EvictLoop(_, _, _)
\* the while loop of set: evict the first key until the condition is false
\* or the dictionary is empty
EvictLoop(q, size, entry_size) ==
    IF MustEvict(q, size, entry_size) /\ q # <<>>
    THEN LET r == Evict(q, size, Head(q).key)
         IN  EvictLoop(r[1], r[2], entry_size)
    ELSE <<q, size>>

\* the state of <<_cache, _current_size>> when set has run its `if key in`
SetSubtractOld(q, size, key) ==
    IF Has(q, key) THEN size - Utf8Len(Lookup(q, key).content) ELSE size

\* the ttl an entry created by set gets
EffectiveTtl(ttl) == OrElse(ttl, default_ttl)

\* history helpers
Without(s, key) == SelectSeq(s, LAMBDA x : x # key)

Restrict(s, keep) == SelectSeq(s, LAMBDA x : x \in keep)

\* what `last` keeps of an operation: its name and arguments, what it
\* returned, the keys it removed, the branch it took (why), the access_count
\* of the entry it found (hits), and for a get whether it directly follows
\* the set of the same key and mtime (roundtrip)
Record(op, key, content, mtime, ttl, result, evicted, why, hits, roundtrip) ==
    [op |-> op, key |-> key, content |-> content, mtime |-> mtime,
     ttl |-> ttl, result |-> result, evicted |-> evicted, why |-> why,
     hits |-> hits, roundtrip |-> roundtrip]

FollowsSet(key, current_mtime) ==
    /\ last.op = "set"
    /\ last.key = key
    /\ last.mtime = current_mtime

NoLog == [ok |-> FALSE, sets |-> <<>>]

LoggedKeys == {setlog.sets[i][1] : i \in 1..Len(setlog.sets)}

\* HTMLCache.__init__ and the settings the process starts with; every file
\* exists, with one of the given mtimes
ConstructAt(sizes, ttls, mbs, mtimes) ==
    /\ max_size \in sizes
    /\ \E arg \in ttls : default_ttl = OrElse(arg, cache_ttl)
    /\ max_memory_mb \in mbs
    /\ cache = <<>>
    /\ current_size = 0
    /\ cache_enabled \in BOOLEAN
    /\ now = 0
    /\ last = Record("init", "", None, None, None, None, <<>>, "", 0, FALSE)
    /\ recency = <<>>
    /\ setlog = [ok |-> TRUE, sets |-> <<>>]
    /\ held = {}
    /\ threads = [t \in Threads |-> Idle]
    /\ lock = NoThread
    /\ written = [k \in Keys |-> None]
    /\ raceable = {}
    /\ \E mtime \in mtimes :
          file = [k \in Keys |-> [mtime |-> mtime, text |-> Repeat(97, 1),
                                  exists |-> TRUE]]
    /\ finder = NoFinder
    /\ watcher = NoWatcher
    /\ scanner = NoScanner
    /\ routes = NoRoutes
    /\ sockets = NoSockets

Construct(sizes, ttls, mbs) == ConstructAt(sizes, ttls, mbs, {1})

\* HTMLCache.get
Get(key, current_mtime) ==
    /\ UNCHANGED <<max_size, default_ttl, max_memory_mb, cache_enabled, now>>
    /\ setlog' = NoLog
    /\ IF Disabled
       THEN /\ UNCHANGED <<cache, current_size, recency>>
            /\ last' = Record("get", key, None, current_mtime, None, None,
                              <<>>, "disabled", 0, FALSE)
       ELSE IF ~Has(cache, key)
       THEN /\ UNCHANGED <<cache, current_size, recency>>
            /\ last' = Record("get", key, None, current_mtime, None, None,
                              <<>>, "absent", 0,
                              FollowsSet(key, current_mtime))
       ELSE LET entry == Lookup(cache, key)
                stale == Truthy(current_mtime)
                           /\ is_stale(entry, current_mtime[1])
            IN  IF stale \/ is_expired(entry)
                THEN LET r == Evict(cache, current_size, key)
                     IN  /\ cache' = r[1]
                         /\ current_size' = r[2]
                         /\ recency' = Without(recency, key)
                         /\ last' = Record("get", key, None, current_mtime,
                                           None, None, <<key>>,
                                           IF stale THEN "stale"
                                           ELSE "expired",
                                           entry.access_count,
                                           FollowsSet(key, current_mtime))
                ELSE /\ entry.access_count < MaxAccess
                     /\ cache' = [MoveToEnd(cache, key) EXCEPT
                                    ![Len(cache)] = touch(entry)]
                     /\ UNCHANGED current_size
                     /\ recency' = Append(Without(recency, key), key)
                     /\ last' = Record("get", key, None, current_mtime, None,
                                       Some(entry.content), <<>>, "hit",
                                       entry.access_count,
                                       FollowsSet(key, current_mtime))
    /\ held' = held \cap KeysOf(cache')
    /\ UNCHANGED thread_vars

\* HTMLCache.set
Set(key, content, file_mtime, ttl) ==
    /\ UNCHANGED <<max_size, default_ttl, max_memory_mb, cache_enabled, now>>
    /\ UNCHANGED thread_vars
    /\ IF Disabled
       THEN /\ UNCHANGED <<cache, current_size, recency, held>>
            /\ setlog' = NoLog
            /\ last' = Record("set", key, Some(content), Some(file_mtime),
                              ttl, None, <<>>, "disabled", 0, FALSE)
       ELSE LET entry_size == Utf8Len(content)
                r == EvictLoop(cache,
                               SetSubtractOld(cache, current_size, key),
                               entry_size)
                entry == CacheEntry(key, content, file_mtime,
                                    EffectiveTtl(ttl))
                evicted == SubSeq(KeySeq(cache), 1, Len(cache) - Len(r[1]))
            IN  /\ cache' = SetItem(r[1], key, entry)
                /\ current_size' = r[2] + entry_size
                /\ SumBytes(cache') - current_size' <= MaxDrift
                /\ recency' = Append(Restrict(Without(recency, key),
                                              KeysOf(cache')), key)
                /\ held' = (held \ {key}) \cap KeysOf(cache')
                /\ setlog' = IF setlog.ok /\ key \notin LoggedKeys
                             THEN [setlog EXCEPT
                                     !.sets = Append(@, <<key, content>>)]
                             ELSE NoLog
                /\ last' = Record("set", key, Some(content), Some(file_mtime),
                                  ttl, None, evicted,
                                  IF Has(cache, key) THEN "replace"
                                  ELSE "insert",
                                  IF Has(cache, key)
                                  THEN Lookup(cache, key).access_count
                                  ELSE 0,
                                  FALSE)

\* mutant: invalidate consults the switch as get and set do
InvalidateGated(key) ==
    /\ UNCHANGED <<max_size, default_ttl, max_memory_mb, cache_enabled, now>>
    /\ UNCHANGED thread_vars
    /\ setlog' = NoLog
    /\ LET r == IF Disabled THEN <<cache, current_size>>
                ELSE Evict(cache, current_size, key)
       IN  /\ cache' = r[1]
           /\ current_size' = r[2]
           /\ recency' = Restrict(recency, KeysOf(r[1]))
           /\ held' = held \cap KeysOf(r[1])
           /\ last' = Record("invalidate", key, None, None, None,
                             Some(Has(cache, key) /\ ~Disabled), <<>>, "", 0,
                             FALSE)

\* HTMLCache.invalidate
Invalidate(key) ==
    /\ UNCHANGED <<max_size, default_ttl, max_memory_mb, cache_enabled, now>>
    /\ UNCHANGED thread_vars
    /\ setlog' = NoLog
    /\ LET r == Evict(cache, current_size, key)
       IN  /\ cache' = r[1]
           /\ current_size' = r[2]
           /\ recency' = Without(recency, key)
           /\ held' = held \ {key}
           /\ last' = Record("invalidate", key, None, None, None,
                             Some(Has(cache, key)), <<>>, "", 0, FALSE)

\* mutant: clear empties the dictionary and forgets the byte counter
ClearEntriesOnly ==
    /\ UNCHANGED <<max_size, default_ttl, max_memory_mb, cache_enabled, now,
                   current_size>>
    /\ UNCHANGED thread_vars
    /\ setlog' = NoLog
    /\ cache' = <<>>
    /\ recency' = <<>>
    /\ held' = {}
    /\ last' = Record("clear", "", None, None, None, None, KeySeq(cache), "",
                      0, FALSE)

\* HTMLCache.clear
Clear ==
    /\ UNCHANGED <<max_size, default_ttl, max_memory_mb, cache_enabled, now>>
    /\ UNCHANGED thread_vars
    /\ setlog' = NoLog
    /\ cache' = <<>>
    /\ current_size' = 0
    /\ recency' = <<>>
    /\ held' = {}
    /\ last' = Record("clear", "", None, None, None, None, KeySeq(cache), "",
                      0, FALSE)

\* the dict HTMLCache.stats returns, with the memory in bytes
stats ==
    [entries |-> Len(cache), max_entries |-> max_size,
     memory |-> current_size, max_memory_mb |-> max_memory_mb,
     total_access |-> SumAccess(cache)]

\* HTMLCache.stats
Stats ==
    /\ last' = Record("stats", "", None, None, None, Some(stats), <<>>, "",
                      0, FALSE)
    /\ UNCHANGED <<max_size, default_ttl, max_memory_mb, cache, current_size,
                   cache_enabled, now, recency, setlog, held>>
    /\ UNCHANGED thread_vars

\* one second passes on the clock time.time() reads
Tick ==
    /\ now < MaxTime
    /\ now' = now + 1
    /\ last' = Record("tick", "", None, None, None, None, <<>>, "", 0, FALSE)
    /\ UNCHANGED <<max_size, default_ttl, max_memory_mb, cache, current_size,
                   cache_enabled, recency, setlog, held>>
    /\ UNCHANGED thread_vars

\* settings.cache_enabled = b: the process-wide switch is turned on or off
SetCacheEnabled(b) ==
    /\ cache_enabled # b
    /\ cache_enabled' = b
    /\ held' = IF b THEN held ELSE KeysOf(cache)
    /\ setlog' = NoLog
    /\ last' = Record(IF b THEN "enable" ELSE "disable", "", None, None, None,
                      None, <<>>, "", 0, FALSE)
    /\ UNCHANGED <<max_size, default_ttl, max_memory_mb, cache, current_size,
                   now, recency>>
    /\ UNCHANGED thread_vars

----------------------------------------------------------------------------
(* The operations statement by statement, as concurrent threads run them.  *)
(* threads[t].pc is the statement thread t executes next. In get and set   *)
(* the test of the switch comes before `with self._lock:` and is taken     *)
(* with the call; every other statement is inside the lock.                *)

\* the positions in front of `with self._lock:`
Waiting == {"get_lock", "set_lock", "inv_lock", "clear_lock", "stats_lock"}

\* the positions inside `with self._lock:`
InLock ==
    {"get_lookup", "get_move", "get_touch", "set_old", "set_loop",
     "set_store", "set_add", "inv_check", "evict_pop", "evict_sub",
     "clear_entries", "clear_size", "stats_access", "stats_entries",
     "stats_memory", "exit"}

\* the first statement inside the lock
FirstInLock(op) ==
    CASE op = "get" -> "get_lookup"
      [] op = "set" -> "set_old"
      [] op = "invalidate" -> "inv_check"
      [] op = "clear" -> "clear_entries"
      [] OTHER -> "stats_access"

\* thread t moves on with the locals rec
Goto(t, rec) == threads' = [threads EXCEPT ![t] = rec]

\* a statement that writes only locals of the thread
LocalStep ==
    UNCHANGED <<cfg_vars, hist_vars, cache, current_size, lock, written,
                raceable>>

\* a thread calls get(key, current_mtime):
\* `if not settings.cache_enabled: return None`
CallGet(t, key, current_mtime) ==
    /\ threads[t].pc = "idle"
    /\ Has(cache, key) => Lookup(cache, key).access_count < MaxAccess
    /\ Goto(t, IF Disabled THEN Idle
               ELSE [Idle EXCEPT !.op = "get", !.pc = "get_lock",
                                 !.key = key, !.mtime = current_mtime])
    /\ LocalStep

\* a thread calls set(key, content, file_mtime):
\* `if not settings.cache_enabled: return`
CallSet(t, key, content, file_mtime) ==
    /\ threads[t].pc = "idle"
    /\ SumBytes(cache) - current_size <= MaxThreadDrift
    /\ Goto(t, IF Disabled THEN Idle
               ELSE [Idle EXCEPT !.op = "set", !.pc = "set_lock",
                                 !.key = key, !.content = Some(content),
                                 !.mtime = Some(file_mtime)])
    /\ written' = IF Disabled THEN [written EXCEPT ![key] = Some(content)]
                  ELSE written
    /\ UNCHANGED <<cfg_vars, hist_vars, cache, current_size, lock, raceable>>

\* a thread calls invalidate(key)
CallInvalidate(t, key) ==
    /\ threads[t].pc = "idle"
    /\ Goto(t, [Idle EXCEPT !.op = "invalidate", !.pc = "inv_lock",
                            !.key = key])
    /\ LocalStep

\* a thread calls clear()
CallClear(t) ==
    /\ threads[t].pc = "idle"
    /\ Goto(t, [Idle EXCEPT !.op = "clear", !.pc = "clear_lock"])
    /\ LocalStep

\* a thread calls stats()
CallStats(t) ==
    /\ threads[t].pc = "idle"
    /\ Goto(t, [Idle EXCEPT !.op = "stats", !.pc = "stats_lock"])
    /\ LocalStep

\* mutant: the lock is taken without waiting for its owner to release it
CanAcquireAlways(t) == TRUE

\* RLock.acquire returns: the lock is free, or this thread holds it already
CanAcquire(t) == lock = NoThread \/ lock = t

\* `with self._lock:` is entered
Acquire(t) ==
    /\ threads[t].pc \in Waiting
    /\ CanAcquire(t)
    /\ lock' = t
    /\ Goto(t, [threads[t] EXCEPT
                  !.pc = FirstInLock(threads[t].op),
                  !.exact = (threads[t].op = "set"
                               /\ current_size = SumBytes(cache)),
                  !.raced = (t \in raceable),
                  !.expect = IF threads[t].op = "get"
                             THEN written[threads[t].key] ELSE None])
    /\ raceable' = {}
    /\ UNCHANGED <<cfg_vars, hist_vars, cache, current_size, written>>

\* get: `entry = self._cache.get(key)` and the three tests on it
GetLookup(t) ==
    /\ threads[t].pc = "get_lookup"
    /\ LET me == threads[t]
       IN  IF ~Has(cache, me.key)
           THEN Goto(t, [me EXCEPT !.pc = "exit"])
           ELSE LET entry == Lookup(cache, me.key)
                IN  IF \/ Truthy(me.mtime) /\ is_stale(entry, me.mtime[1])
                       \/ is_expired(entry)
                    THEN Goto(t, [me EXCEPT !.pc = "evict_pop",
                                            !.victim = me.key])
                    ELSE Goto(t, [me EXCEPT !.pc = "get_move",
                                            !.scratch = <<entry.content>>])
    /\ LocalStep

\* get: `self._cache.move_to_end(key)`
GetMove(t) ==
    /\ threads[t].pc = "get_move"
    /\ cache' = IF Has(cache, threads[t].key)
                THEN MoveToEnd(cache, threads[t].key) ELSE cache
    /\ Goto(t, [threads[t] EXCEPT !.pc = "get_touch"])
    /\ UNCHANGED <<cfg_vars, hist_vars, current_size, lock, written, raceable>>

\* get: `entry.touch()` and `return entry.content`
GetTouch(t) ==
    /\ threads[t].pc = "get_touch"
    /\ cache' = IF Has(cache, threads[t].key)
                THEN [cache EXCEPT ![IndexOf(cache, threads[t].key)] = touch(@)]
                ELSE cache
    /\ Goto(t, [threads[t] EXCEPT !.pc = "exit", !.scratch = <<>>,
                                  !.result = Some(threads[t].scratch[1])])
    /\ UNCHANGED <<cfg_vars, hist_vars, current_size, lock, written, raceable>>

\* the locals of a thread when _evict has returned to its caller
Evicted(me) ==
    CASE me.op = "set" ->
           [me EXCEPT !.pc = "set_loop", !.victim = "", !.popped = 0]
      [] me.op = "invalidate" ->
           [me EXCEPT !.pc = "exit", !.victim = "", !.popped = 0,
                      !.result = Some(TRUE)]
      [] OTHER ->
           [me EXCEPT !.pc = "exit", !.victim = "", !.popped = 0]

\* _evict: `if key in self._cache: entry = self._cache.pop(key)`
EvictPop(t) ==
    /\ threads[t].pc = "evict_pop"
    /\ LET me == threads[t]
       IN  IF Has(cache, me.victim)
           THEN /\ cache' = Pop(cache, me.victim)
                /\ Goto(t, [me EXCEPT
                              !.pc = "evict_sub",
                              !.popped = Utf8Len(Lookup(cache, me.victim).content)])
           ELSE /\ UNCHANGED cache
                /\ Goto(t, Evicted(me))
    /\ UNCHANGED <<cfg_vars, hist_vars, current_size, lock, written, raceable>>

\* _evict: `self._current_size -= len(entry.content.encode("utf-8"))`
EvictSub(t) ==
    /\ threads[t].pc = "evict_sub"
    /\ current_size' = current_size - threads[t].popped
    /\ Goto(t, Evicted(threads[t]))
    /\ UNCHANGED <<cfg_vars, hist_vars, cache, lock, written, raceable>>

\* set: `if key in self._cache: self._current_size -= len(old_entry...)`
SetOld(t) ==
    /\ threads[t].pc = "set_old"
    /\ current_size' = SetSubtractOld(cache, current_size, threads[t].key)
    /\ Goto(t, [threads[t] EXCEPT !.pc = "set_loop"])
    /\ UNCHANGED <<cfg_vars, hist_vars, cache, lock, written, raceable>>

\* set: the test of the while loop, `if not self._cache: break` and
\* `oldest_key = next(iter(self._cache))`
SetLoop(t) ==
    /\ threads[t].pc = "set_loop"
    /\ LET me == threads[t]
       IN  IF MustEvict(cache, current_size, Utf8Len(me.content[1]))
                /\ cache # <<>>
           THEN Goto(t, [me EXCEPT !.pc = "evict_pop",
                                   !.victim = Head(cache).key])
           ELSE Goto(t, [me EXCEPT !.pc = "set_store"])
    /\ LocalStep

\* set: `entry = CacheEntry(...)` and `self._cache[key] = entry`
SetStore(t) ==
    /\ threads[t].pc = "set_store"
    /\ LET me == threads[t]
       IN  cache' = SetItem(cache, me.key,
                            CacheEntry(me.key, me.content[1], me.mtime[1],
                                       EffectiveTtl(None)))
    /\ Goto(t, [threads[t] EXCEPT !.pc = "set_add"])
    /\ UNCHANGED <<cfg_vars, hist_vars, current_size, lock, written, raceable>>

\* set: `self._current_size += entry_size`
SetAdd(t) ==
    /\ threads[t].pc = "set_add"
    /\ current_size' = current_size + Utf8Len(threads[t].content[1])
    /\ Goto(t, [threads[t] EXCEPT !.pc = "exit"])
    /\ UNCHANGED <<cfg_vars, hist_vars, cache, lock, written, raceable>>

\* invalidate: `if key in self._cache:` ... `return False`
InvCheck(t) ==
    /\ threads[t].pc = "inv_check"
    /\ LET me == threads[t]
       IN  IF Has(cache, me.key)
           THEN Goto(t, [me EXCEPT !.pc = "evict_pop", !.victim = me.key])
           ELSE Goto(t, [me EXCEPT !.pc = "exit", !.result = Some(FALSE)])
    /\ LocalStep

\* clear: `self._cache.clear()`
ClearEntries(t) ==
    /\ threads[t].pc = "clear_entries"
    /\ cache' = <<>>
    /\ Goto(t, [threads[t] EXCEPT !.pc = "clear_size"])
    /\ UNCHANGED <<cfg_vars, hist_vars, current_size, lock, written, raceable>>

\* clear: `self._current_size = 0`
ClearSize(t) ==
    /\ threads[t].pc = "clear_size"
    /\ current_size' = 0
    /\ Goto(t, [threads[t] EXCEPT !.pc = "exit"])
    /\ UNCHANGED <<cfg_vars, hist_vars, cache, lock, written, raceable>>

\* stats: `total_access = sum(e.access_count for e in ...)`
StatsAccess(t) ==
    /\ threads[t].pc = "stats_access"
    /\ Goto(t, [threads[t] EXCEPT !.pc = "stats_entries",
                                  !.scratch = <<SumAccess(cache)>>])
    /\ LocalStep

\* stats: `"entries": len(self._cache)`
StatsEntries(t) ==
    /\ threads[t].pc = "stats_entries"
    /\ Goto(t, [threads[t] EXCEPT !.pc = "stats_memory",
                                  !.scratch = Append(@, Len(cache))])
    /\ LocalStep

\* stats: `"memory_mb": self._current_size / (1024 * 1024)`, kept in bytes
StatsMemory(t) ==
    /\ threads[t].pc = "stats_memory"
    /\ Goto(t, [threads[t] EXCEPT
                  !.pc = "exit",
                  !.scratch = <<>>,
                  !.result = Some([entries |-> threads[t].scratch[2],
                                   memory |-> current_size,
                                   total_access |-> threads[t].scratch[1]])])
    /\ LocalStep

\* the threads whose set of the same key is under way while thread t leaves
\* the lock after a set that found the byte counter exact
Racing(t) ==
    IF threads[t].op = "set" /\ threads[t].exact
    THEN {u \in Threads \ {t} : /\ threads[u].pc = "set_lock"
                                 /\ threads[u].key = threads[t].key}
    ELSE {}

\* the locals of a thread when get or set has returned: to a render the
\* result of get is `cached`
Returned(me) ==
    IF me.caller = "" THEN Idle
    ELSE IF me.caller = "route"
    THEN [Idle EXCEPT !.route = me.route, !.pc = "h_done", !.key = me.key,
                      !.status = 200, !.result = me.html,
                      !.cached = me.cached, !.flag = me.result # None]
    ELSE IF me.op = "get"
    THEN [Idle EXCEPT !.caller = me.caller, !.pc = "r_cached", !.key = me.key,
                      !.text = me.text, !.fresh = me.fresh,
                      !.skipped = me.skipped, !.cached = me.result,
                      !.use_cache = me.use_cache, !.route = me.route]
    ELSE [Idle EXCEPT !.caller = me.caller, !.pc = "r_return", !.key = me.key,
                      !.text = me.text, !.fresh = me.fresh, !.html = me.html,
                      !.skipped = me.skipped, !.cached = me.cached,
                      !.use_cache = me.use_cache, !.route = me.route]

\* the `with self._lock:` block is left and the call returns
Exit(t) ==
    /\ threads[t].pc = "exit"
    /\ lock' = NoThread
    /\ Goto(t, Returned(threads[t]))
    /\ written' = IF threads[t].op = "set"
                  THEN [written EXCEPT ![threads[t].key] = threads[t].content]
                  ELSE written
    /\ raceable' = Racing(t)
    /\ UNCHANGED <<cfg_vars, hist_vars, cache, current_size>>

----------------------------------------------------------------------------
(* MarkdownRenderer (src/foxmdviewer/services/markdown.py): render_file    *)
(* and render statement by statement, calling get and set of the cache     *)
(* above, while the file is modified by others.                            *)

\* bool(s) of an Optional str: None and "" are falsy
TruthyStr(opt) == opt # None /\ opt[1] # <<>>

\* "<p>", and "</p>" with the newline that ends a block
OpenP == << <<60, 1>>, <<112, 1>>, <<62, 1>> >>

CloseP == << <<60, 1>>, <<47, 1>>, <<112, 1>>, <<62, 1>>, <<10, 1>> >>

\* self._markdown(content) on a text of one word: a paragraph, and nothing
\* for the empty text
Markdown(text) == IF text = <<>> THEN <<>> ELSE OpenP \o text \o CloseP

\* self.use_cache: `use_cache and settings.cache_enabled` of the constructor
use_cache == cache_enabled

\* the locals of a render in progress, at position pc
Rendering(me, pc) ==
    [Idle EXCEPT !.caller = "render", !.pc = pc, !.key = me.key,
                 !.text = me.text, !.html = me.html, !.cached = me.cached,
                 !.fresh = me.fresh, !.skipped = me.skipped,
                 !.use_cache = me.use_cache, !.route = me.route]

\* the locals of a render_file that has raised the exception `error`
Raised(me, error) ==
    [Idle EXCEPT !.caller = "render", !.pc = "r_done", !.key = me.key,
                 !.error = error, !.route = me.route]

\* mutant: the existence test of render_file always passes
ExistsAlways(file_path) == TRUE

\* file_path.exists()
Exists(file_path) == file[file_path].exists

\* file_path.stat() and file_path.read_text() raise an OSError when the
\* file is not there
StatFails(file_path) == ~file[file_path].exists

\* mutant: an OSError of the stat leaves render
OnCacheErrorRaise(me, step) == Raised(me, "OSError")

\* render: `except OSError as e: console.print(...)` of the lookup step
\* ("lookup", then the conversion) and of the write-back step ("write", then
\* `return html`)
OnCacheError(me, step) ==
    Rendering([me EXCEPT !.skipped = @ \cup {step}],
              IF step = "lookup" THEN "r_convert" ELSE "r_return")

\* a thread calls render_file(file_path): `if not file_path.exists(): raise
\* FileNotFoundError(...)`
RenderFile(t, file_path) ==
    /\ threads[t].pc = "idle"
    /\ LET me == [Idle EXCEPT !.caller = "render", !.pc = "r_read",
                              !.key = file_path]
       IN  Goto(t, IF Exists(file_path) THEN me
                   ELSE Raised(me, "FileNotFoundError"))
    /\ LocalStep

\* render_file: `content = file_path.read_text(...)` or `raise OSError(...)`,
\* then render's `if file_path and self.use_cache:`
RenderRead(t) ==
    /\ threads[t].pc = "r_read"
    /\ LET me == [threads[t] EXCEPT !.text = Some(file[threads[t].key].text),
                                    !.fresh = TRUE]
       IN  Goto(t, IF StatFails(me.key) THEN Raised(me, "OSError")
                   ELSE Rendering(me, IF use_cache THEN "r_stat"
                                      ELSE "r_convert"))
    /\ LocalStep

\* render: `file_mtime = file_path.stat().st_mtime` and the call
\* `html_cache.get(file_path, file_mtime)` with its test of the switch
RenderStat(t) ==
    /\ threads[t].pc = "r_stat"
    /\ LET me == threads[t]
       IN  IF StatFails(me.key)
           THEN Goto(t, OnCacheError(me, "lookup"))
           ELSE /\ Has(cache, me.key) =>
                       Lookup(cache, me.key).access_count < MaxAccess
                /\ Goto(t, IF Disabled THEN Rendering(me, "r_cached")
                           ELSE [me EXCEPT !.op = "get", !.pc = "get_lock",
                                           !.mtime = Some(file[me.key].mtime)])
    /\ LocalStep

\* render: `if cached: return cached`
RenderCached(t) ==
    /\ threads[t].pc = "r_cached"
    /\ LET me == threads[t]
       IN  Goto(t, IF TruthyStr(me.cached)
                   THEN [Rendering(me, "r_done") EXCEPT !.result = me.cached]
                   ELSE Rendering(me, "r_convert"))
    /\ LocalStep

\* render: `html = self._markdown(content)` and the second
\* `if file_path and self.use_cache:`
RenderConvert(t) ==
    /\ threads[t].pc = "r_convert"
    /\ LET me == [threads[t] EXCEPT !.html = Some(Markdown(threads[t].text[1]))]
       IN  Goto(t, IF use_cache THEN Rendering(me, "r_restat")
                   ELSE [Rendering(me, "r_done") EXCEPT !.result = me.html])
    /\ LocalStep

\* render: the second `file_mtime = file_path.stat().st_mtime` and the call
\* `html_cache.set(file_path, html, file_mtime)` with its test of the switch
RenderRestat(t) ==
    /\ threads[t].pc = "r_restat"
    /\ LET me == threads[t]
       IN  IF StatFails(me.key)
           THEN Goto(t, OnCacheError(me, "write"))
           ELSE /\ SumBytes(cache) - current_size <= MaxThreadDrift
                /\ Goto(t, IF Disabled THEN Rendering(me, "r_return")
                           ELSE [me EXCEPT !.op = "set", !.pc = "set_lock",
                                           !.content = me.html,
                                           !.mtime = Some(file[me.key].mtime)])
    /\ LocalStep

\* render: `return html`
RenderReturn(t) ==
    /\ threads[t].pc = "r_return"
    /\ Goto(t, [Rendering(threads[t], "r_done") EXCEPT
                  !.result = threads[t].html])
    /\ LocalStep

\* mutant: the renderer's use_cache is not consulted
CachingAnyRenderer(file_path, own_use_cache) == file_path # None

\* `if file_path and self.use_cache:` of render
Caching(file_path, own_use_cache) == file_path # None /\ own_use_cache

\* a thread calls render(text, file_path) of a renderer it has constructed
\* with the argument use_cache: `self.use_cache = use_cache and
\* settings.cache_enabled`, then the first `if file_path and self.use_cache:`
Render(t, text, file_path, use_cache_arg) ==
    /\ threads[t].pc = "idle"
    /\ LET own == use_cache_arg /\ cache_enabled
           me == [Idle EXCEPT !.caller = "render",
                              !.key = IF file_path = None THEN ""
                                      ELSE file_path[1],
                              !.text = Some(text),
                              !.use_cache = own]
       IN  Goto(t, IF Caching(file_path, own) THEN Rendering(me, "r_stat")
                   ELSE [me EXCEPT !.pc = "r_plain"])
    /\ LocalStep

\* render without the cache: `html = self._markdown(content)`, the second
\* `if file_path and self.use_cache:` fails as the first did, `return html`
RenderPlain(t) ==
    /\ threads[t].pc = "r_plain"
    /\ LET html == Some(Markdown(threads[t].text[1]))
       IN  Goto(t, [threads[t] EXCEPT !.pc = "r_done", !.html = html,
                                     !.result = html])
    /\ LocalStep

\* the caller of render_file has taken the HTML
RenderDone(t) ==
    /\ threads[t].pc = "r_done"
    /\ Goto(t, Idle)
    /\ LocalStep

\* the threads, when the file they render is changed by somebody else
Outdated(file_path) ==
    [t \in Threads |->
       IF threads[t].caller = "render" /\ threads[t].key = file_path
       THEN [threads[t] EXCEPT !.fresh = FALSE]
       ELSE threads[t]]

\* somebody saves the file with a new text (or creates it again): its mtime
\* grows
ModifyFile(file_path, text) ==
    /\ file[file_path].mtime < MaxMtime
    /\ file[file_path].text # text \/ ~file[file_path].exists
    /\ file' = [file EXCEPT ![file_path] =
                  [mtime |-> @.mtime + 1, text |-> text, exists |-> TRUE]]
    /\ threads' = Outdated(file_path)
    /\ UNCHANGED <<max_size, default_ttl, max_memory_mb, cache_enabled, now,
                   hist_vars, cache, current_size, lock, written, raceable,
                   util_vars>>

\* somebody deletes the file
DeleteFile(file_path) ==
    /\ file[file_path].exists
    /\ file' = [file EXCEPT ![file_path].exists = FALSE]
    /\ threads' = Outdated(file_path)
    /\ UNCHANGED <<max_size, default_ttl, max_memory_mb, cache_enabled, now,
                   hist_vars, cache, current_size, lock, written, raceable,
                   util_vars>>

----------------------------------------------------------------------------
(* get_file_content (src/foxmdviewer/api/routes.py) for a path inside      *)
(* base_dir, statement by statement on the thread that serves the request; *)
(* the render_file it calls is the one above.                              *)

\* the handler returns a response without content
Refused(me, status) ==
    [Idle EXCEPT !.route = me.route, !.pc = "h_done", !.key = me.key,
                 !.status = status]

\* a request for the file arrives: `if not file_path.exists(): return
\* JSONResponse(..., status_code=404)`
GetFileContent(t, file_path) ==
    /\ threads[t].pc = "idle"
    /\ LET me == [Idle EXCEPT !.route = "get_file_content", !.pc = "h_read",
                              !.key = file_path]
       IN  Goto(t, IF Exists(file_path) THEN me ELSE Refused(me, 404))
    /\ LocalStep

\* `stat = file_path.stat()` ... `raw_content = file_path.read_text(...)`;
\* an exception is answered with 500
RouteRead(t) ==
    /\ threads[t].pc = "h_read"
    /\ Goto(t, IF StatFails(threads[t].key) THEN Refused(threads[t], 500)
               ELSE [threads[t] EXCEPT !.pc = "h_render"])
    /\ LocalStep

\* `html_content = markdown_renderer.render_file(file_path)`: the call, with
\* render_file's test of the file's existence
RouteRender(t) ==
    /\ threads[t].pc = "h_render"
    /\ LET me == [threads[t] EXCEPT !.caller = "render", !.pc = "r_read"]
       IN  Goto(t, IF Exists(me.key) THEN me
                   ELSE Raised(me, "FileNotFoundError"))
    /\ LocalStep

\* render_file has returned or raised: 500 for the exception, else
\* `cached=html_cache.get(file_path) is not None`, a get without mtime
RouteProbe(t) ==
    /\ threads[t].pc = "r_done"
    /\ threads[t].route = "get_file_content"
    /\ LET me == threads[t]
       IN  /\ Has(cache, me.key) =>
                  Lookup(cache, me.key).access_count <= MaxAccess
           /\ Goto(t, IF me.error # "" THEN Refused(me, 500)
                      ELSE IF Disabled
                      THEN [Idle EXCEPT !.route = me.route, !.pc = "h_done",
                                        !.key = me.key, !.status = 200,
                                        !.result = me.result,
                                        !.cached = me.cached]
                      ELSE [me EXCEPT !.caller = "route", !.op = "get",
                                      !.pc = "get_lock", !.mtime = None,
                                      !.html = me.result, !.result = None])
    /\ LocalStep

\* the response has been sent
RouteDone(t) ==
    /\ threads[t].pc = "h_done"
    /\ Goto(t, Idle)
    /\ LocalStep

----------------------------------------------------------------------------
(* PortFinder (src/foxmdviewer/utils/port_finder.py)                       *)

\* the range of start_port the constructor accepts, which is also the range
\* of the ports a socket address takes upwards of the privileged ones
MinPort == 1024

MaxPort == 65535

\* `preferred_ports or [8000, 8080, 3000, 5000, 9000]`
DefaultPreferred == <<8000, 8080, 3000, 5000, 9000>>

\* the elements of a list
Elems(q) == {q[i] : i \in 1..Len(q)}

\* what _is_port_available(port) gives: connect_ex refuses a port outside
\* 0..65535 with OverflowError, which the method does not catch; otherwise
\* True when nothing listens on the port
is_port_available(port) ==
    IF port < 0 \/ port > MaxPort THEN "OverflowError"
    ELSE IF port \in finder.free THEN "free" ELSE "busy"

\* find_available_port has returned `port`
Found(port) == [finder EXCEPT !.pc = "done", !.result = Some(port)]

\* find_available_port has raised `error`
Failed(error) == [finder EXCEPT !.pc = "done", !.error = error]

\* find_available_port has probed `port`
Probing(f, port) == [f EXCEPT !.probed = Append(@, port)]

\* PortFinder.__init__, while the ports of `free` have no listener
NewPortFinder(start_port, max_attempts, preferred_ports, free) ==
    /\ finder.pc = "none"
    /\ finder' =
         IF ~(MinPort <= start_port /\ start_port <= MaxPort)
         THEN [pc |-> "invalid", error |-> "ValueError"]
         ELSE [pc |-> "ready",
               start_port |-> start_port,
               max_attempts |-> max_attempts,
               preferred_ports |->
                   IF preferred_ports = None \/ preferred_ports[1] = <<>>
                   THEN DefaultPreferred ELSE preferred_ports[1],
               free |-> free, at |-> 0, probed |-> <<>>, result |-> None,
               error |-> ""]
    /\ UNCHANGED <<cache_vars, watcher, scanner, routes, sockets>>

\* find_available_port is called
FindAvailablePort ==
    /\ finder.pc = "ready"
    /\ finder' = [finder EXCEPT !.pc = "preferred", !.at = 1]
    /\ UNCHANGED <<cache_vars, watcher, scanner, routes, sockets>>

\* one round of `for port in self.preferred_ports:`
ProbePreferred ==
    /\ finder.pc = "preferred"
    /\ finder' =
         IF finder.at > Len(finder.preferred_ports)
         THEN [finder EXCEPT !.pc = "range", !.at = 0]
         ELSE LET port == finder.preferred_ports[finder.at]
                  available == is_port_available(port)
              IN  IF available = "free" THEN Probing(Found(port), port)
                  ELSE IF available = "busy"
                  THEN Probing([finder EXCEPT !.at = @ + 1], port)
                  ELSE Probing(Failed(available), port)
    /\ UNCHANGED <<cache_vars, watcher, scanner, routes, sockets>>

\* one round of `for offset in range(self.max_attempts):`, or the
\* RuntimeError after the last one
ProbeRange ==
    /\ finder.pc = "range"
    /\ finder' =
         IF finder.at >= finder.max_attempts
         THEN Failed("RuntimeError")
         ELSE LET port == finder.start_port + finder.at
              IN  IF port \in Elems(finder.preferred_ports)
                  THEN [finder EXCEPT !.at = @ + 1]
                  ELSE LET available == is_port_available(port)
                       IN  IF available = "free"
                           THEN Probing(Found(port), port)
                           ELSE IF available = "busy"
                           THEN Probing([finder EXCEPT !.at = @ + 1], port)
                           ELSE Probing(Failed(available), port)
    /\ UNCHANGED <<cache_vars, watcher, scanner, routes, sockets>>

----------------------------------------------------------------------------
(* FileWatcher (src/app/services/file_watcher.py), called by its one owner *)
(* (the lifespan of the application, or a `with` block). watcher.observers *)
(* holds the state of every Observer the watcher has created, in order of  *)
(* creation; watcher.observer is the index of self._observer, 0 for None.  *)

\* `if self._running:` of start
AlreadyRunningNever(w) == FALSE

AlreadyRunning(w) == w.running

\* the call `op` has returned `result` or raised `error`
Called(w, op, result, error) ==
    [w EXCEPT !.last = op, !.result = result, !.error = error]

\* FileWatcher.__init__ on a path that exists or does not
NewFileWatcher(exists, recursive) ==
    /\ watcher.pc = "none"
    /\ watcher' =
         IF ~exists THEN [pc |-> "invalid", error |-> "ValueError"]
         ELSE [pc |-> "ready", recursive |-> recursive, running |-> FALSE,
               observer |-> 0, observers |-> <<>>, last |-> "init",
               result |-> None, error |-> ""]
    /\ UNCHANGED <<cache_vars, finder, scanner, routes, sockets>>

\* FileWatcher.start; `started` is whether Observer.start() succeeds (it
\* raises when a watch or a thread cannot be set up)
Start(started) ==
    /\ watcher.pc = "ready"
    /\ AlreadyRunning(watcher) \/ Len(watcher.observers) < MaxObservers
    /\ watcher' =
         IF AlreadyRunning(watcher)
         THEN Called(watcher, "start", None, "RuntimeError")
         ELSE LET scheduled ==
                      [watcher EXCEPT
                          !.observers = Append(@, "scheduled"),
                          !.observer = Len(watcher.observers) + 1]
              IN  IF ~started
                  THEN Called(scheduled, "start", None, "OSError")
                  ELSE Called([scheduled EXCEPT
                                  !.observers[scheduled.observer] = "started",
                                  !.running = TRUE],
                              "start", None, "")
    /\ UNCHANGED <<cache_vars, finder, scanner, routes, sockets>>

\* FileWatcher.stop; `joined` is whether the observer's thread ends within
\* the 5 seconds of join
Stop(joined) ==
    /\ watcher.pc = "ready"
    /\ watcher' =
         IF ~watcher.running \/ watcher.observer = 0
         THEN Called(watcher, "stop", None, "")
         ELSE Called([watcher EXCEPT
                         !.observers[watcher.observer] =
                             IF joined THEN "stopped" ELSE "stopping",
                         !.running = FALSE,
                         !.observer = 0],
                     "stop", None, "")
    /\ UNCHANGED <<cache_vars, finder, scanner, routes, sockets>>

\* FileWatcher.is_running
IsRunning ==
    /\ watcher.pc = "ready"
    /\ watcher' = Called(watcher, "is_running", Some(watcher.running), "")
    /\ UNCHANGED <<cache_vars, finder, scanner, routes, sockets>>

----------------------------------------------------------------------------
(* MarkdownScanner (src/app/utils/scanner.py): os.walk from base_dir, one  *)
(* directory a step. scanner.todo holds the directories os.walk has still  *)
(* to visit, the next one first; scanner.files is the list scan builds.    *)

\* `exclude_dirs or [".git", "__pycache__", "node_modules"]`
DefaultExcludes == {".git", "__pycache__", "node_modules"}

\* filename.endswith(".md")
endswith_md(name) == name # <<>> /\ name[Len(name)] = ".md"

\* the elements of `set` as a list, in the order of listing
RECURSIVE Listing(_)
Listing(set) ==
    IF set = {} THEN <<>>
    ELSE LET x == CHOOSE y \in set : TRUE
         IN  <<x>> \o Listing(set \ {x})

\* the subdirectories of `root` that os.walk lists
Subdirs(root) ==
    {d \in Dirs : Len(d) = Len(root) + 1 /\ SubSeq(d, 1, Len(root)) = root}

\* _extract_title and _extract_preview: None when the file cannot be
\* opened, as they swallow OSError
extract_title(f) == IF f.open_ok THEN Some("title") ELSE None

\* _create_markdown_file: the MarkdownFile, or the exception raised
create_markdown_file(f) ==
    IF ~f.stat_ok THEN [error |-> "OSError"]
    ELSE IF f.size > max_file_size THEN [error |-> "ValueError"]
    ELSE [error |-> "", dir |-> f.dir, name |-> f.name, size |-> f.size,
          title |-> extract_title(f)]

\* `for filename in files:` of one directory: the MarkdownFiles yielded
RECURSIVE Yielded(_)
Yielded(files) ==
    IF files = <<>> THEN <<>>
    ELSE LET f == Head(files)
             made == create_markdown_file(f)
         IN  IF endswith_md(f.name) /\ made.error = ""
             THEN <<made>> \o Yielded(Tail(files))
             ELSE Yielded(Tail(files))

\* MarkdownScanner.__init__ on a base path that is a directory or is not
NewMarkdownScanner(is_dir, max_depth, exclude_dirs, tree) ==
    /\ scanner.pc = "none"
    /\ scanner' =
         IF ~is_dir THEN [pc |-> "invalid", error |-> "ValueError"]
         ELSE [pc |-> "ready",
               max_depth |-> max_depth,
               exclude_dirs |->
                   IF exclude_dirs = None \/ exclude_dirs[1] = {}
                   THEN DefaultExcludes ELSE exclude_dirs[1],
               tree |-> tree, todo |-> <<>>, files |-> <<>>,
               result |-> None]
    /\ UNCHANGED <<cache_vars, finder, watcher, routes, sockets>>

\* scan is called: os.walk starts at base_dir
Scan ==
    /\ scanner.pc = "ready"
    /\ scanner' = [scanner EXCEPT !.pc = "walk", !.todo = << <<>> >>]
    /\ UNCHANGED <<cache_vars, finder, watcher, routes, sockets>>

\* one round of `for root, dirs, files in os.walk(self.base_dir):`
WalkDir ==
    /\ scanner.pc = "walk"
    /\ scanner.todo # <<>>
    /\ LET root == Head(scanner.todo)
           dirs == {d \in Subdirs(root) :
                       d[Len(d)] \notin scanner.exclude_dirs}
           files == Listing({f \in scanner.tree : f.dir = root})
           too_deep == /\ scanner.max_depth # None
                       /\ Len(root) > scanner.max_depth[1]
       IN  scanner' =
             [scanner EXCEPT
                 !.todo = Listing(dirs) \o Tail(scanner.todo),
                 !.files = IF too_deep THEN @ ELSE @ \o Yielded(files)]
    /\ UNCHANGED <<cache_vars, finder, watcher, routes, sockets>>

\* os.walk is exhausted: scan returns the list
ScanReturn ==
    /\ scanner.pc = "walk"
    /\ scanner.todo = <<>>
    /\ scanner' = [scanner EXCEPT !.pc = "done", !.result = Some(scanner.files)]
    /\ UNCHANGED <<cache_vars, finder, watcher, routes, sockets>>

----------------------------------------------------------------------------
(* The file routes (src/foxmdviewer/api/routes.py): how get_file_content,  *)
(* export_html and download_markdown take the file_path of a request to a  *)
(* file. routes.files are the files that exist, routes.last the last       *)
(* response and the place of the file whose content it carries.            *)

\* no such file or directory
Missing == << <<"?">> >>

\* `app_settings.base_dir / file_path_str`: an absolute file_path replaces
\* base_dir, and the segments stay as they are written
Join(base, file_path) ==
    IF file_path # <<>> /\ file_path[1] = <<"/">> THEN Tail(file_path)
    ELSE base \o file_path

\* the place the operating system takes a path to from the directory `at`:
\* `..` is the parent, a link is followed
RECURSIVE Walk(_, _)
Walk(at, path) ==
    IF path = <<>> THEN at
    ELSE LET seg == Head(path)
             next == at \o <<seg>>
         IN  IF at \notin Directories THEN Missing
             ELSE IF seg = <<"..">>
             THEN Walk(IF at = <<>> THEN at ELSE SubSeq(at, 1, Len(at) - 1),
                       Tail(path))
             ELSE IF next = LinkPath /\ routes.link
             THEN Walk(LinkTarget(next), Tail(path))
             ELSE IF next \in Directories \/ next \in routes.files
             THEN Walk(next, Tail(path))
             ELSE Missing

\* the place of the file or directory at `path`
Resolved(path) ==
    LET place == Walk(<<>>, path)
    IN  IF place \in Directories \/ place \in routes.files THEN place
        ELSE Missing

\* path.exists()
PathExists(path) == Resolved(path) # Missing

\* path.is_relative_to(base): a comparison of the segments as written
is_relative_to(path, base) ==
    Len(path) >= Len(base) /\ SubSeq(path, 1, Len(base)) = base

\* the response of a route to a request for file_path: its status, and the
\* place of the file whose content it carries (Missing when it carries none)
Response(route, file_path) ==
    LET path == Join(BaseDir, file_path)
        place == Resolved(path)
        answer(status, served) ==
            [route |-> route, file_path |-> file_path, status |-> status,
             served |-> served]
    IN  IF ~PathExists(path) THEN answer(404, Missing)
        ELSE IF ~is_relative_to(path, BaseDir) THEN answer(403, Missing)
        ELSE IF place \in Directories THEN answer(500, Missing)
        ELSE IF route = "get_file_content" /\ ~endswith_md(path[Len(path)])
        THEN answer(500, Missing)
        ELSE answer(200, place)

\* a route answers a request
Serve(route, file_path) ==
    /\ routes' = [routes EXCEPT !.last = Response(route, file_path)]
    /\ UNCHANGED <<cache_vars, finder, watcher, scanner, sockets>>

\* a file is created or deleted
ToggleFile(place) ==
    /\ routes' = [routes EXCEPT
                    !.files = IF place \in @ THEN @ \ {place}
                              ELSE @ \cup {place}]
    /\ UNCHANGED <<cache_vars, finder, watcher, scanner, sockets>>

\* the link base_dir/link.md is created or deleted
ToggleLink ==
    /\ routes' = [routes EXCEPT !.link = ~@]
    /\ UNCHANGED <<cache_vars, finder, watcher, scanner, sockets>>

----------------------------------------------------------------------------
(* ConnectionManager and MarkdownWebSocket (src/app/api/websocket.py) on    *)
(* the event loop. Every task runs from one await that suspends it to the  *)
(* next: websocket.accept(), connection.send_text() and the wait for the   *)
(* asyncio.Lock. sockets.connections[ws] is the task of the endpoint that  *)
(* serves socket ws, sockets.events[e] the task the watcher thread has     *)
(* scheduled for its e-th file event. sockets.holder is the task inside    *)
(* `async with self._lock`, sockets.waiters the tasks waiting for the lock *)
(* in the order of their arrival.                                          *)

\* connection_manager = ConnectionManager()
NewConnectionManager ==
    /\ sockets.pc = "none"
    /\ sockets' =
          [pc |-> "ready",
           active_connections |-> {},
           holder |-> None,
           waiters |-> <<>>,
           connections |-> [websocket \in Connections |->
                               [pc |-> "new", received |-> <<>>]],
           events |-> <<>>,
           last |-> [websocket |-> "", frame |-> [json |-> "", members |-> NoMembers],
                     replies |-> <<>>, delivered |-> <<>>, raised |-> ""]]
    /\ UNCHANGED <<cache_vars, finder, watcher, scanner, routes>>

\* asyncio.Lock wakes the waiter that has waited longest
FirstWaiter(s, task) == s.waiters # <<>> /\ s.waiters[1] = task

\* `async with self._lock` is entered without waiting
LockFreeAlways(s) == TRUE

\* `async with self._lock` is entered without waiting when the lock is not
\* held and no task waits for it
LockFree(s) == s.holder = None /\ s.waiters = <<>>

\* the task waits for the lock
Wait(s, task) == [s EXCEPT !.waiters = Append(@, task)]

\* the waiter whose turn it is leaves the queue
Woken(s, task) ==
    [s EXCEPT !.waiters = SelectSeq(@, LAMBDA other : other # task)]

\* ConnectionManager.connect up to `await websocket.accept()`
Connect(websocket) ==
    /\ sockets.pc = "ready"
    /\ sockets.connections[websocket].pc = "new"
    /\ sockets' = [sockets EXCEPT !.connections[websocket].pc = "accept"]
    /\ UNCHANGED <<cache_vars, finder, watcher, scanner, routes>>

\* self.active_connections.add(websocket) inside the lock, where no await is
Added(s, websocket) ==
    [s EXCEPT !.active_connections = @ \cup {websocket},
              !.connections[websocket].pc = "open"]

\* ConnectionManager.connect from the return of accept: into the lock or
\* into the queue of its waiters
Accepted(websocket) ==
    /\ sockets.pc = "ready"
    /\ sockets.connections[websocket].pc = "accept"
    /\ sockets' =
          IF LockFree(sockets) THEN Added(sockets, websocket)
          ELSE [Wait(sockets, ConnectionTask(websocket))
                   EXCEPT !.connections[websocket].pc = "connect_wait"]
    /\ UNCHANGED <<cache_vars, finder, watcher, scanner, routes>>

\* ConnectionManager.connect when its wait for the lock ends
ConnectLocked(websocket) ==
    /\ sockets.pc = "ready"
    /\ sockets.connections[websocket].pc = "connect_wait"
    /\ sockets.holder = None
    /\ FirstWaiter(sockets, ConnectionTask(websocket))
    /\ sockets' = Added(Woken(sockets, ConnectionTask(websocket)), websocket)
    /\ UNCHANGED <<cache_vars, finder, watcher, scanner, routes>>

\* self.active_connections.discard(websocket) inside the lock
Discarded(s, websocket) ==
    [s EXCEPT !.active_connections = @ \ {websocket},
              !.connections[websocket].pc = "closed"]

\* ConnectionManager.disconnect, called by on_disconnect when the client of
\* an accepted socket has gone
Disconnect(websocket) ==
    /\ sockets.pc = "ready"
    /\ sockets.connections[websocket].pc = "open"
    /\ sockets' =
          IF LockFree(sockets) THEN Discarded(sockets, websocket)
          ELSE [Wait(sockets, ConnectionTask(websocket))
                   EXCEPT !.connections[websocket].pc = "disconnect_wait"]
    /\ UNCHANGED <<cache_vars, finder, watcher, scanner, routes>>

\* ConnectionManager.disconnect when its wait for the lock ends
DisconnectLocked(websocket) ==
    /\ sockets.pc = "ready"
    /\ sockets.connections[websocket].pc = "disconnect_wait"
    /\ sockets.holder = None
    /\ FirstWaiter(sockets, ConnectionTask(websocket))
    /\ sockets' = Discarded(Woken(sockets, ConnectionTask(websocket)), websocket)
    /\ UNCHANGED <<cache_vars, finder, watcher, scanner, routes>>

\* MarkdownEventHandler._trigger_callback on the watcher thread:
\* run_coroutine_threadsafe schedules handle_file_change for the next event
Dispatch ==
    /\ sockets.pc = "ready"
    /\ Len(sockets.events) < MaxEvents
    /\ sockets' =
          [sockets EXCEPT !.events =
              Append(@, [pc |-> "scheduled", size |-> 0, visited |-> {},
                         connection |-> "", attempts |-> <<>>, sent |-> {}, disconnected |-> {},
                         iterated |-> {}, error |-> ""])]
    /\ UNCHANGED <<cache_vars, finder, watcher, scanner, routes>>

\* the scheduled tasks start in any order
MayStartAny(s, event) == TRUE

\* the loop starts the tasks in the order call_soon_threadsafe got them
MayStart(s, event) == \A earlier \in 1..(event - 1) : s.events[earlier].pc # "scheduled"

\* the failed connections stay registered
ForgetNone(active_connections, disconnected) == active_connections

\* for connection in disconnected: self.active_connections.discard(connection)
Forget(active_connections, disconnected) == active_connections \ disconnected

\* broadcast leaves `async with self._lock` and returns, or the exception
\* error leaves it
Left(s, event, error) ==
    [s EXCEPT !.holder = None,
              !.active_connections =
                  IF error = "" THEN Forget(@, s.events[event].disconnected) ELSE @,
              !.events[event].pc = "done",
              !.events[event].error = error]

\* the for statement of broadcast takes the next connection of the set and
\* awaits its send_text, or finds the set exhausted; a set whose size has
\* changed since the loop began raises RuntimeError
Iterate(s, event) ==
    LET task == s.events[event]
        rest == s.active_connections \ task.visited IN
    IF Cardinality(s.active_connections) # task.size
    THEN sockets' = Left(s, event, "RuntimeError")
    ELSE IF rest = {}
    THEN sockets' = Left(s, event, "")
    ELSE \E connection \in rest :
            sockets' = [s EXCEPT !.events[event].pc = "send_text",
                                 !.events[event].connection = connection,
                                 !.events[event].visited = @ \cup {connection},
                                 !.events[event].attempts = Append(@, connection)]

\* broadcast inside `async with self._lock`, before its loop
Locked(s, event) ==
    [s EXCEPT !.holder = Some(EventTask(event)),
              !.events[event].size = Cardinality(s.active_connections),
              !.events[event].iterated = s.active_connections]

\* handle_file_change, broadcast_file_update and broadcast up to the first
\* await that suspends them
Broadcast(event) ==
    /\ sockets.pc = "ready"
    /\ event \in 1..Len(sockets.events)
    /\ sockets.events[event].pc = "scheduled"
    /\ MayStart(sockets, event)
    /\ IF sockets.active_connections = {}
       THEN sockets' = [sockets EXCEPT !.events[event].pc = "returned"]
       ELSE IF LockFree(sockets)
       THEN Iterate(Locked(sockets, event), event)
       ELSE sockets' = [Wait(sockets, EventTask(event))
                           EXCEPT !.events[event].pc = "broadcast_wait"]
    /\ UNCHANGED <<cache_vars, finder, watcher, scanner, routes>>

\* broadcast when its wait for the lock ends
BroadcastLocked(event) ==
    /\ sockets.pc = "ready"
    /\ event \in 1..Len(sockets.events)
    /\ sockets.events[event].pc = "broadcast_wait"
    /\ sockets.holder = None
    /\ FirstWaiter(sockets, EventTask(event))
    /\ Iterate(Locked(Woken(sockets, EventTask(event)), event), event)
    /\ UNCHANGED <<cache_vars, finder, watcher, scanner, routes>>

\* connection.send_text returns or raises, and the loop goes on: a message
\* sent is a message the client receives
SendText(event, sent) ==
    /\ sockets.pc = "ready"
    /\ event \in 1..Len(sockets.events)
    /\ sockets.events[event].pc = "send_text"
    /\ LET connection == sockets.events[event].connection IN
       Iterate(IF sent
               THEN [sockets EXCEPT
                        !.events[event].sent = @ \cup {connection},
                        !.connections[connection].received = Append(@, event)]
               ELSE [sockets EXCEPT
                        !.events[event].disconnected = @ \cup {connection}],
               event)
    /\ UNCHANGED <<cache_vars, finder, watcher, scanner, routes>>

\* message.get(key, default) of the received object
get(members, key, default) ==
    IF members[key] = JsonMissing THEN default ELSE members[key]

\* the messages of the endpoint; the members a message does not have are
\* JsonMissing, and about is the value an f-string has formatted into message
Message(type, timestamp, channel, message, about) ==
    [type |-> type, timestamp |-> timestamp, channel |-> channel,
     message |-> message, about |-> about]

\* ConnectionManager.send_to: one send_text to the socket; what it raises is
\* printed and swallowed
send_to(call, websocket, message, sent) ==
    [call EXCEPT !.replies = Append(@, [to |-> websocket, message |-> message]),
                 !.delivered = IF sent THEN Append(@, websocket) ELSE @]

\* MarkdownWebSocket._handle_message; message.get of a value that is no
\* dict raises AttributeError
handle_message(call, websocket, frame, sent) ==
    IF frame.json # "object" THEN [call EXCEPT !.raised = "AttributeError"]
    ELSE LET message_type == get(frame.members, "type", JsonNull) IN
         IF message_type = JsonString("ping")
         THEN send_to(call, websocket,
                      Message("pong", get(frame.members, "timestamp", JsonNull),
                              JsonMissing, "", JsonMissing), sent)
         ELSE IF message_type = JsonString("subscribe")
         THEN send_to(call, websocket,
                      Message("subscribed", JsonMissing,
                              get(frame.members, "channel", JsonString("all")),
                              "", JsonMissing), sent)
         ELSE send_to(call, websocket,
                      Message("error", JsonMissing, JsonMissing,
                              "Unknown message type: ", message_type), sent)

\* only the error of json.loads is caught
CaughtDecodeOnly(error) == error = "JSONDecodeError"

\* `except json.JSONDecodeError` and `except Exception` of on_receive
Caught(error) == error \in {"JSONDecodeError", "AttributeError"}

\* MarkdownWebSocket.on_receive
on_receive(websocket, frame, sent) ==
    LET call == [websocket |-> websocket, frame |-> frame, replies |-> <<>>,
                 delivered |-> <<>>, raised |-> ""]
        tried == IF frame.json = "invalid"
                 THEN [call EXCEPT !.raised = "JSONDecodeError"]
                 ELSE handle_message(call, websocket, frame, sent) IN
    IF tried.raised = "" \/ ~Caught(tried.raised) THEN tried
    ELSE send_to([tried EXCEPT !.raised = ""], websocket,
                 Message("error", JsonMissing, JsonMissing,
                         IF tried.raised = "JSONDecodeError"
                         THEN "Invalid JSON format"
                         ELSE "object has no attribute 'get'",
                         JsonMissing), sent)

\* a text frame arrives on an accepted socket and on_receive handles it
Receive(websocket, frame, sent) ==
    /\ sockets.pc = "ready"
    /\ sockets.connections[websocket].pc = "open"
    /\ sockets' = [sockets EXCEPT !.last = on_receive(websocket, frame, sent)]
    /\ UNCHANGED <<cache_vars, finder, watcher, scanner, routes>>

----------------------------------------------------------------------------
(* Properties of eviction and accounting, checked under Spec               *)

\* C1: after every completed operation _current_size equals the sum of the
\* UTF-8 byte lengths of the contents of the entries in the cache.
C1_AccountingExact == current_size = SumBytes(cache)

\* C2: after every set the bytes actually held do not exceed the memory
\* budget, unless the cache holds exactly one entry and that entry alone is
\* larger than the budget.
C2_WithinBudget ==
    last.op = "set" =>
        \/ SumBytes(cache) <= MaxMemoryBytes
        \/ Len(cache) = 1 /\ Utf8Len(cache[1].content) > MaxMemoryBytes

\* C3: for max_size >= 1 the number of entries is at most max_size after
\* every set, with new keys and with keys already present.
C3_SizeBound ==
    (last.op = "set" /\ max_size >= 1) => Len(cache) <= max_size

\* C3 witness: a set of a present key into a full cache of three, which
\* evicted and left the cache full.
C3_Witness ==
    /\ last.op = "set"
    /\ last.why = "replace"
    /\ last.evicted # <<>>
    /\ max_size = 3
    /\ Len(cache) = 3

\* the keys and the bytes of the sets from..to of the run in setlog
LoggedKeySeq(from, to) == [i \in 1..(to - from + 1) |-> setlog.sets[from + i - 1][1]]

RECURSIVE LoggedBytes(_, _)
LoggedBytes(from, to) ==
    IF from > to THEN 0
    ELSE Utf8Len(setlog.sets[from][2]) + LoggedBytes(from + 1, to)

\* the run so far is max_size + 1 sets of distinct new keys and nothing else
FilledByDistinctSets == setlog.ok /\ Len(setlog.sets) = max_size + 1

\* C4 as stated: after max_size + 1 sets of distinct new keys k1..k(N+1) and
\* no other operation, exactly k2..k(N+1) are present and k1 is gone.
C4_InsertionOrderEviction ==
    FilledByDistinctSets =>
        KeysOf(cache) = {setlog.sets[i][1] : i \in 2..(max_size + 1)}

\* C4 amended: the same, provided the contents of k2..k(N+1) together fit in
\* the memory budget; the entries then are k2..k(N+1) in that order.
C4_InsertionOrderEvictionWithinBudget ==
    (FilledByDistinctSets /\ LoggedBytes(2, max_size + 1) <= MaxMemoryBytes)
        => KeySeq(cache) = LoggedKeySeq(2, max_size + 1)

\* C4 witness: four distinct keys set into a cache of three, the last three
\* fitting in the budget although the first two fill it alone.
C4_Witness ==
    /\ FilledByDistinctSets
    /\ max_size = 3
    /\ LoggedBytes(2, 4) <= MaxMemoryBytes
    /\ LoggedBytes(1, 2) = MaxMemoryBytes

\* s is the first Len(s) elements of t
IsPrefix(s, t) == Len(s) <= Len(t) /\ SubSeq(t, 1, Len(s)) = s

\* C5: the entries a set of a new key evicts are the ones whose last hit or
\* set is oldest (so a hit on A protects A: after A, B, C and a hit on A, a
\* set of D evicts B).
C5_EvictsLeastRecentlyUsed ==
    [][(last'.op = "set" /\ last'.why = "insert")
          => IsPrefix(last'.evicted, recency)]_vars

\* C6: after set(k, ...) the key k is at the most-recently-used end of the
\* order, whether k was absent or present and whether or not the loop ran.
C6_SetMovesKeyToEnd ==
    (last.op = "set" /\ last.why # "disabled")
        => cache[Len(cache)].key = last.key

----------------------------------------------------------------------------
(* Properties of staleness and expiry, checked under SpecFresh             *)

\* the get that this step completes found an entry for its key
GetFound == last'.op = "get" /\ cache_enabled /\ Has(cache, last'.key)

\* C7: for an unexpired entry stored with mtime M, get(key, m) hits and
\* leaves the entry for every supplied m <= M, and misses and removes the
\* entry (one entry fewer) for every supplied m > M.
C7_StaleExactlyWhenNewer ==
    [][(GetFound /\ last'.mtime # None
          /\ ~is_expired(Lookup(cache, last'.key)))
        => LET entry == Lookup(cache, last'.key)
           IN  IF last'.mtime[1] <= entry.file_mtime
               THEN /\ last'.result = Some(entry.content)
                    /\ Has(cache', last'.key)
               ELSE /\ last'.result = None
                    /\ ~Has(cache', last'.key)
                    /\ Len(cache') = Len(cache) - 1]_vars

\* C8: the ttl runs from creation and does not slide. A get later than
\* created_at + ttl misses and removes the entry, whatever its access_count;
\* a get no later than that, and not stale, hits; a hit leaves created_at
\* and ttl as they were.
C8_TtlFixedAtCreation ==
    [][GetFound
        => LET entry == Lookup(cache, last'.key)
               newer == last'.mtime # None
                          /\ last'.mtime[1] > entry.file_mtime
           IN  /\ now > entry.created_at + entry.ttl
                    => last'.result = None /\ ~Has(cache', last'.key)
               /\ (now <= entry.created_at + entry.ttl /\ ~newer)
                    => last'.result = Some(entry.content)
               /\ last'.result # None
                    => /\ Has(cache', last'.key)
                       /\ Lookup(cache', last'.key).created_at
                            = entry.created_at
                       /\ Lookup(cache', last'.key).ttl = entry.ttl]_vars

\* C8 witness: an entry that was hit before is found expired by a get and
\* removed.
C8_Witness ==
    /\ last.op = "get"
    /\ last.why = "expired"
    /\ last.hits >= 1
    /\ ~Has(cache, last.key)

\* C9: with caching enabled, set(k, v, t) directly followed by get(k, t)
\* within the ttl returns exactly v.
C9_RoundTrip ==
    [][(last.op = "set" /\ cache_enabled /\ last'.op = "get"
          /\ last'.key = last.key /\ last'.mtime = last.mtime
          /\ 0 <= EffectiveTtl(last.ttl))
        => last'.result = last.content]_vars

\* C9 witness: the get directly after the set of a content larger than the
\* memory budget, with the same mtime, returned that content.
C9_Witness ==
    /\ last.op = "get"
    /\ last.roundtrip
    /\ last.result # None
    /\ Utf8Len(last.result[1]) > MaxMemoryBytes
    /\ last.mtime = Some(1)

\* C10: a set on a present key replaces its entry: afterwards there is
\* exactly one entry for the key, it holds the new content, and it starts
\* with access_count 0 and created_at the time of the set.
C10_SetReplacesEntry ==
    [][(last'.op = "set" /\ cache_enabled /\ Has(cache, last'.key))
        => /\ Cardinality({i \in 1..Len(cache') :
                             cache'[i].key = last'.key}) = 1
           /\ Some(Lookup(cache', last'.key).content) = last'.content
           /\ Lookup(cache', last'.key).access_count = 0
           /\ Lookup(cache', last'.key).created_at = now]_vars

\* C10 witness: a set replaced, in place and after the loop evicted the
\* other key, an entry that had been hit and had been created earlier.
C10_Witness ==
    /\ last.op = "set"
    /\ last.why = "replace"
    /\ last.hits >= 1
    /\ Len(last.evicted) = 1
    /\ last.evicted[1] # last.key
    /\ now >= 1

----------------------------------------------------------------------------
(* Properties of the switch, invalidate, clear and the constructor,        *)
(* checked under SpecSwitch (C14 under SpecFresh)                          *)

\* the get that this step completes was called with an mtime newer than the
\* one the entry was stored with
GetNewer(entry) == last'.mtime # None /\ last'.mtime[1] > entry.file_mtime

\* C11: while cache_enabled is off, get returns None and set does nothing,
\* and neither changes the entries, their order, their access counts or the
\* byte counter; turning the switch leaves them too, so that after the switch
\* is on again every entry stored before it was turned off (and not removed
\* since) is still there and a get of it, unless expired or stale, returns
\* its content.
C11_DisabledIsBypass ==
    [][/\ (~cache_enabled /\ last'.op \in {"get", "set"})
            => /\ last'.result = None
               /\ cache' = cache
               /\ current_size' = current_size
       /\ cache_enabled' # cache_enabled
            => /\ cache' = cache
               /\ current_size' = current_size
       /\ held \subseteq KeysOf(cache)
       /\ (last'.op = "get" /\ cache_enabled /\ last'.key \in held
              /\ ~is_expired(Lookup(cache, last'.key))
              /\ ~GetNewer(Lookup(cache, last'.key)))
            => last'.result = Some(Lookup(cache, last'.key).content)]_vars

\* C11 witness: with the switch on again, a get hit an entry that was stored
\* before the switch was turned off, one second after that.
C11_Witness ==
    /\ last.op = "get"
    /\ last.why = "hit"
    /\ last.key \in held
    /\ cache_enabled
    /\ Len(cache) = 2
    /\ now > Lookup(cache, last.key).created_at

\* C12: invalidate(k) returns True exactly when k was present; afterwards k
\* is absent, the byte counter is smaller by the bytes of k's content, and
\* the other entries are as they were, in the same order; the switch makes
\* no difference.
C12_InvalidateRemovesOnlyKey ==
    [][last'.op = "invalidate"
        => /\ last'.result = Some(last'.key \in KeysOf(cache))
           /\ last'.key \notin KeysOf(cache')
           /\ current_size' = current_size
                - (IF last'.key \in KeysOf(cache)
                   THEN Utf8Len(Lookup(cache, last'.key).content) ELSE 0)
           /\ cache' = SelectSeq(cache, LAMBDA e : e.key # last'.key)]_vars

\* C12 witness: with the switch off, invalidate removed one of two entries.
C12_Witness ==
    /\ last.op = "invalidate"
    /\ last.result = Some(TRUE)
    /\ ~cache_enabled
    /\ Len(cache) = 1
    /\ cache[1].access_count = 1

\* C13: clear leaves no entry and a byte counter of 0, from every state and
\* whatever the switch says, and a second clear changes nothing.
C13_ClearEmptiesAndIsIdempotent ==
    [][last'.op = "clear"
        => /\ cache' = <<>>
           /\ current_size' = 0
           /\ last.op = "clear"
                => /\ cache' = cache
                   /\ current_size' = current_size
                   /\ last'.evicted = <<>>]_vars

\* C13 witness: with the switch off, clear removed two entries.
C13_Witness ==
    /\ last.op = "clear"
    /\ Len(last.evicted) = 2
    /\ ~cache_enabled
    /\ cache = <<>>
    /\ current_size = 0

\* C14: the entry a set creates has the ttl argument as its ttl whenever one
\* is given, whatever integer it is, and default_ttl only when none is given.
C14_TtlArgumentWins ==
    (last.op = "set" /\ last.why # "disabled")
        => Lookup(cache, last.key).ttl
             = (IF last.ttl # None THEN last.ttl[1] ELSE default_ttl)

\* C15: the constructor refuses a max_size that is not positive, so no cache
\* with max_size <= 0 ever receives a set.
C15_NoSetWithoutPositiveMaxSize ==
    (last.op = "set" /\ last.why # "disabled") => max_size >= 1

\* C25: a set whose content alone is larger than the memory budget leaves
\* its entry as the only entry of the cache, and the get that follows it
\* returns that content
C25_OversizedSetStoresAlone ==
    [][/\ ( /\ last'.op = "set"
            /\ last'.why # "disabled"
            /\ Utf8Len(last'.content[1]) > max_memory_mb * 1024 * 1024 ) =>
              /\ KeySeq(cache') = <<last'.key>>
              /\ cache'[1].content = last'.content[1]
       /\ ( /\ last.op = "set"
            /\ last.why # "disabled"
            /\ Utf8Len(last.content[1]) > max_memory_mb * 1024 * 1024
            /\ last'.op = "get"
            /\ last'.key = last.key ) =>
              last'.result = last.content
      ]_vars

\* C30: a set of a key that is present, with content no larger than the
\* content it replaces, leaves every other key in the cache, also when the
\* cache holds max_size entries
C30_ReplaceKeepsOtherKeys ==
    [][( /\ last'.op = "set"
         /\ last'.why = "replace"
         /\ Has(cache, last'.key)
         /\ Utf8Len(last'.content[1])
               <= Utf8Len(Lookup(cache, last'.key).content) ) =>
           KeysOf(cache') \ {last'.key} = KeysOf(cache) \ {last'.key}
      ]_vars

\* the keys whose entry an operation has removed or replaced
Gone ==
    (KeysOf(cache) \ KeysOf(cache')) \cup
    (IF last'.op = "set" /\ last'.why # "disabled"
     THEN {last'.key} \cap KeysOf(cache) ELSE {})

\* the sum of the access counts of the entries with these keys
RECURSIVE AccessOf(_, _)
AccessOf(q, keys) ==
    IF q = <<>> THEN 0
    ELSE (IF Head(q).key \in keys THEN Head(q).access_count ELSE 0)
         + AccessOf(Tail(q), keys)

\* C24: total_access of stats is the sum of the access counts of the entries
\* held: a get that hits adds exactly 1 to it, a get that misses adds
\* nothing, an entry that is removed or replaced takes its count with it, and
\* stats itself changes nothing
C24_TotalAccessCountsHits ==
    [][/\ stats'.total_access =
             stats.total_access - AccessOf(cache, Gone)
             + (IF last'.op = "get" /\ last'.result # None THEN 1 ELSE 0)
       /\ (last'.op = "get" /\ last'.result = None) =>
             stats'.total_access <= stats.total_access
       /\ last'.op = "stats" =>
             /\ last'.result = Some(stats)
             /\ stats' = stats
             /\ UNCHANGED <<cache, current_size, cfg_vars>>
      ]_vars

\* stats after a hit on each of two entries
C24_Witness ==
    /\ last.op = "stats"
    /\ last.result[1].total_access = 2
    /\ last.result[1].entries = 2

----------------------------------------------------------------------------
(* Properties of concurrent calls, checked under SpecThreads               *)

\* C16: when two threads set the same key concurrently, the set that takes
\* the lock last decides the stored content, one entry for the key remains,
\* and the byte counter counts the winner's bytes and the other entries'
\* (the counter was exact before the two sets).
C16_ConcurrentSetsLastWins ==
    \A t \in Threads :
        (threads[t].pc = "exit" /\ threads[t].op = "set" /\ threads[t].raced)
            => /\ Cardinality({i \in 1..Len(cache) :
                                 cache[i].key = threads[t].key}) = 1
               /\ Some(Lookup(cache, threads[t].key).content)
                    = threads[t].content
               /\ current_size = SumBytes(cache)

\* C17: a get that returns content returns the content of the most recent
\* set of its key that completed before the get took the lock.
C17_GetReturnsLastCompletedSet ==
    \A t \in Threads :
        (threads[t].pc = "exit" /\ threads[t].op = "get"
           /\ threads[t].result # None)
            => threads[t].result = threads[t].expect

\* C17 witness: a get returns content of a key while the other thread waits
\* for the lock with a set of other content for that key, two entries cached.
C17_Witness ==
    \E t \in Threads, u \in Threads :
        /\ threads[t].pc = "exit"
        /\ threads[t].op = "get"
        /\ threads[t].result # None
        /\ threads[u].pc = "set_lock"
        /\ threads[u].key = threads[t].key
        /\ threads[u].content # threads[t].result
        /\ Len(cache) = 2

\* C18: every statement that reads or writes the dictionary or the byte
\* counter runs while its thread holds the lock; the lock is given up only
\* when the operation is over; so nothing changes under a thread that holds
\* the lock, and stats reports entries, bytes and accesses of one state.
C18_OneHoldPerOperation ==
    [][/\ \A t \in Threads :
            /\ threads[t].pc \in InLock => lock = t
            /\ (lock = t /\ lock' # t)
                 => threads[t].pc = "exit" /\ threads'[t].pc = "idle"
            /\ (threads[t].pc = "exit" /\ threads[t].op = "stats")
                 => threads[t].result
                      = Some([entries |-> Len(cache),
                              memory |-> current_size,
                              total_access |-> SumAccess(cache)])
       /\ <<cache, current_size>>' # <<cache, current_size>>
            => lock \in Threads /\ lock' = lock
                 /\ threads'[lock] # threads[lock]]_vars

\* C18 witness: stats has read two entries while the other thread waits for
\* the lock with a set.
C18_Witness ==
    \E t \in Threads, u \in Threads :
        /\ threads[t].pc = "exit"
        /\ threads[t].op = "stats"
        /\ threads[t].result[1].entries = 2
        /\ threads[t].result[1].total_access = 1
        /\ threads[u].pc = "set_lock"

----------------------------------------------------------------------------
(* Properties of the renderer, checked under SpecRender                    *)

\* C19: whenever the lookup of a render is a hit, whatever HTML is cached,
\* the render neither converts the markdown nor writes to the cache, and it
\* returns the cached HTML
C19_HitSkipsConversion ==
    \A t \in Threads :
        (threads[t].caller = "render" /\ threads[t].cached # None) =>
            /\ threads[t].pc \in {"r_cached", "r_done"}
            /\ threads[t].pc = "r_done" => threads[t].result = threads[t].cached

\* C20: an entry whose HTML is not that of the file's text has an mtime
\* older than the file's, so the next get with the file's mtime evicts it;
\* and a render_file that read the file after its last modification returns
\* the HTML of that text
C20_StaleEntryIsDetected ==
    /\ \A file_path \in KeysOf(cache) :
          LET entry == Lookup(cache, file_path)
          IN  entry.content # Markdown(file[file_path].text) =>
                  entry.file_mtime < file[file_path].mtime
    /\ \A t \in Threads :
          (threads[t].pc = "r_done" /\ threads[t].fresh) =>
              threads[t].result = Some(Markdown(file[threads[t].key].text))

\* C21: with one thread, and the file saved only between the calls, each
\* time with a larger mtime, every render_file returns the HTML of the text
\* the file holds, which is what it returns with caching disabled
C21_CachedRenderEqualsUncached ==
    \A t \in Threads :
        (threads[t].pc = "r_done" /\ threads[t].error = "") =>
            threads[t].result = Some(Markdown(file[threads[t].key].text))

----------------------------------------------------------------------------
(* Properties of the renderer's error handling, checked under SpecErrors   *)

\* C22: when the stat of the lookup step or of the write-back step fails,
\* render goes on without calling the cache in that step, and such a render
\* raises nothing and returns the HTML converted from the content it was
\* given
C22_StatErrorSkipsCache ==
    [][\A t \in Threads :
         /\ ( /\ threads[t].pc \in {"r_stat", "r_restat"}
              /\ threads'[t].pc # threads[t].pc
              /\ StatFails(threads[t].key) ) =>
                /\ threads'[t].pc =
                       (IF threads[t].pc = "r_stat" THEN "r_convert"
                        ELSE "r_return")
                /\ threads'[t].op = ""
                /\ cache' = cache
                /\ current_size' = current_size
         /\ (threads'[t].pc = "r_done" /\ threads'[t].skipped # {}) =>
                /\ threads'[t].error = ""
                /\ threads'[t].result = Some(Markdown(threads'[t].text[1]))
      ]_vars

\* both stats of one render have failed, and it has returned its HTML
C22_Witness ==
    \E t \in Threads :
        /\ threads[t].pc = "r_done"
        /\ threads[t].skipped = {"lookup", "write"}
        /\ threads[t].result = Some(Markdown(Repeat(98, 1)))

\* C23: render_file of a path that does not exist raises FileNotFoundError,
\* converts nothing and leaves the cache as it is, with caching on or off
\* and with or without an entry of that path
C23_MissingFileRaises ==
    [][\A t \in Threads :
         ( /\ threads[t].pc = "idle"
           /\ threads'[t].pc # "idle"
           /\ threads'[t].caller = "render"
           /\ ~file[threads'[t].key].exists ) =>
             /\ threads'[t] = Raised(threads'[t], "FileNotFoundError")
             /\ threads'[t].html = None
             /\ cache' = cache
             /\ current_size' = current_size
      ]_vars

\* FileNotFoundError was raised for a path whose entry is still cached
C23_Witness ==
    \E t \in Threads :
        /\ threads[t].pc = "r_done"
        /\ threads[t].error = "FileNotFoundError"
        /\ cache_enabled
        /\ Has(cache, threads[t].key)

----------------------------------------------------------------------------
(* Properties of render without the cache, checked under SpecPlain         *)

\* the thread is inside a render that has no file_path or whose renderer has
\* use_cache False
Cacheless(t) ==
    /\ threads[t].caller = "render"
    /\ threads[t].key = "" \/ ~threads[t].use_cache

\* C33: no step of a render made with no file_path, or by a renderer whose
\* use_cache is False, calls get or set or changes the entries, their order,
\* their access counts or the byte counter.
C33_PlainRenderLeavesCache ==
    [][\A t \in Threads :
         (Cacheless(t) /\ threads'[t] # threads[t]) =>
            /\ threads'[t].op = ""
            /\ cache' = cache
            /\ current_size' = current_size]_vars

\* a render with no file_path has returned its HTML while the cache holds an
\* entry that has been hit, and so has a render of a file by a renderer
\* without the cache
C33_Witness ==
    \E t \in Threads :
        /\ threads[t].pc = "r_done"
        /\ Cacheless(t)
        /\ threads[t].result = Some(Markdown(Repeat(98, 1)))
        /\ cache # <<>>
        /\ SumAccess(cache) > 0

----------------------------------------------------------------------------
(* Properties of get_file_content, checked under SpecRoutes                *)

\* C31: in a response of get_file_content with content, the field cached is
\* true exactly when the HTML of that response was served from the cache by
\* the render of that request.
C31_CachedFlagTellsHit ==
    \A t \in Threads :
        (threads[t].pc = "h_done" /\ threads[t].status = 200) =>
            (threads[t].flag <=> TruthyStr(threads[t].cached))

----------------------------------------------------------------------------
(* Properties of PortFinder, checked under SpecPorts                       *)

\* the least element of a non-empty set of numbers
Least(S) == CHOOSE x \in S : \A y \in S : x <= y

\* the positions of preferred_ports whose port is free
FreePreferred ==
    {i \in 1..Len(finder.preferred_ports) :
       finder.preferred_ports[i] \in finder.free}

\* the ports of the sequential range that are not preferred ports
RangePorts ==
    {finder.start_port + offset : offset \in 0..(finder.max_attempts - 1)}
    \ Elems(finder.preferred_ports)

\* C26: find_available_port returns the first preferred port that is free
\* when there is one; otherwise the lowest free port of the sequential range
\* that is no preferred port; and it raises RuntimeError when none of these
\* is free
C26_PreferredPortsFirst ==
    finder.pc = "done" =>
        IF FreePreferred # {}
        THEN /\ finder.result =
                   Some(finder.preferred_ports[Least(FreePreferred)])
             /\ finder.probed =
                   SubSeq(finder.preferred_ports, 1, Least(FreePreferred))
        ELSE IF RangePorts \cap finder.free # {}
        THEN finder.result = Some(Least(RangePorts \cap finder.free))
        ELSE /\ finder.result = None
             /\ finder.error = "RuntimeError"

\* C27: a port find_available_port returns lies in 1024..65535 and a port
\* it probes lies in 1..65535
C27_PortsInRange ==
    finder.pc = "done" =>
        /\ finder.result # None =>
              (MinPort <= finder.result[1] /\ finder.result[1] <= MaxPort)
        /\ \A port \in Elems(finder.probed) : 1 <= port /\ port <= MaxPort

----------------------------------------------------------------------------
(* Properties of FileWatcher, checked under SpecWatcher                    *)

\* C28: start() on a watcher that is already running raises RuntimeError
\* and leaves the running observer and the running flag unchanged; no
\* further observer is created.
C28_StartTwiceRaises ==
    [][(/\ watcher.pc = "ready"
        /\ watcher.running
        /\ watcher'.last = "start")
       => /\ watcher'.error = "RuntimeError"
          /\ watcher'.running = watcher.running
          /\ watcher'.observer = watcher.observer
          /\ watcher'.observers = watcher.observers]_vars

\* start() has been refused on a watcher whose second observer is running
C28_Witness ==
    /\ watcher.pc = "ready"
    /\ watcher.last = "start"
    /\ watcher.error = "RuntimeError"
    /\ watcher.running
    /\ watcher.observer = 2
    /\ watcher.observers = <<"stopped", "started">>

\* what holds of a watcher after each call: a start that returned has left
\* it running with an observer, a stop has left it not running with no
\* observer, is_running tells the flag, and the flag is up only while the
\* watcher has a started observer
WatcherSettled ==
    watcher.pc = "ready" =>
        /\ (watcher.last = "start" /\ watcher.error = "") =>
                watcher.running /\ watcher.observer # 0
        /\ watcher.last = "stop" =>
                ~watcher.running /\ watcher.observer = 0
        /\ watcher.last = "is_running" =>
                watcher.result = Some(watcher.running)
        /\ watcher.running =>
                /\ watcher.observer # 0
                /\ watcher.observers[watcher.observer] = "started"

\* stop on a watcher that is not running changes nothing, and start is not
\* refused after a stop
WatcherStep ==
    watcher.pc = "ready" =>
        /\ (~watcher.running /\ watcher'.last = "stop") =>
                /\ watcher'.running = watcher.running
                /\ watcher'.observer = watcher.observer
                /\ watcher'.observers = watcher.observers
        /\ (watcher.last = "stop" /\ watcher'.last = "start") =>
                watcher'.error # "RuntimeError"

\* C38: in every sequence of start, stop and is_running calls, stop on a
\* watcher that is not running is a no-op, a start that returns leaves the
\* watcher running with an observer, a stop that returns leaves it not
\* running with the observer reference None, start is accepted again after
\* stop, and is_running is true only while an observer exists.
C38_StartStopCycle == []WatcherSettled /\ [][WatcherStep]_vars

----------------------------------------------------------------------------
(* Properties of MarkdownScanner, checked under SpecScanner                *)

\* the file is inside a directory whose name is in exclude_dirs
InExcluded(f) == \E i \in 1..Len(f.dir) : f.dir[i] \in scanner.exclude_dirs

\* the file can be read: stat and open work on it
Readable(f) == f.stat_ok /\ f.open_ok

\* the files scan is to return
Wanted ==
    {f \in scanner.tree :
        /\ endswith_md(f.name)
        /\ ~InExcluded(f)
        /\ scanner.max_depth # None => Len(f.dir) <= scanner.max_depth[1]
        /\ Readable(f)
        /\ f.size <= max_file_size}

\* the places in the returned list of the MarkdownFile of `f`
PlacesOf(f) ==
    {i \in 1..Len(scanner.result[1]) :
        /\ scanner.result[1][i].dir = f.dir
        /\ scanner.result[1][i].name = f.name}

\* C29: scan returns exactly one MarkdownFile for each file under base_dir
\* whose name ends in .md, that is in no excluded directory, within
\* max_depth, readable and not larger than max_file_size, and nothing else.
C29_ScanReturnsWantedFiles ==
    scanner.pc = "done" =>
        /\ \A f \in Wanted : Cardinality(PlacesOf(f)) = 1
        /\ \A f \in scanner.tree \ Wanted : PlacesOf(f) = {}
        /\ Len(scanner.result[1]) = Cardinality(Wanted)

----------------------------------------------------------------------------
(* Properties of the file routes, checked under SpecPaths                  *)

\* the place is base_dir or below it
InsideBase(place) ==
    Len(place) >= Len(BaseDir) /\ SubSeq(place, 1, Len(BaseDir)) = BaseDir

\* C32: a response of get_file_content, export_html or download_markdown
\* that carries the content of a file carries that of a file inside
\* base_dir, whatever the file_path of the request.
C32_ContentOnlyFromBaseDir ==
    routes.last.status = 200 => InsideBase(routes.last.served)

----------------------------------------------------------------------------
(* Properties of ConnectionManager, checked under SpecSockets              *)

\* how often the broadcast has awaited send_text of the connection
Attempts(task, connection) ==
    Cardinality({i \in 1..Len(task.attempts) : task.attempts[i] = connection})

\* a broadcast in its loop holds the lock and finds the set as it was when
\* it took the lock; a broadcast that has left the loop has sent once to
\* each connection of that set and to no other
IteratesRegistered ==
    sockets.pc = "ready" =>
        \A event \in 1..Len(sockets.events) :
            LET task == sockets.events[event] IN
            /\ task.pc = "send_text" =>
                  /\ sockets.holder = Some(EventTask(event))
                  /\ sockets.active_connections = task.iterated
            /\ task.pc = "done" =>
                  /\ task.error = ""
                  /\ \A connection \in Connections :
                        Attempts(task, connection) =
                            IF connection \in task.iterated THEN 1 ELSE 0

\* a broadcast is suspended in a send_text of its loop
Iterating == 
    /\ sockets.pc = "ready"
    /\ \E event \in 1..Len(sockets.events) : sockets.events[event].pc = "send_text"

\* a connect or a disconnect that arrives at the lock during the loop of a
\* broadcast waits and leaves the set alone
ArrivalsWait ==
    Iterating =>
        \A websocket \in Connections :
            LET before == sockets.connections[websocket].pc
                after == sockets'.connections[websocket].pc IN
            (before \in {"accept", "open"} /\ after # before) =>
                /\ after \in {"connect_wait", "disconnect_wait"}
                /\ sockets'.active_connections = sockets.active_connections

\* C34: broadcast attempts to send the message exactly once to each
\* connection registered when it acquires the lock and to no other; a connect
\* or a disconnect that arrives while the broadcast iterates waits for the
\* lock, so the set is never modified during the iteration.
C34_BroadcastIteratesUnderLock == []IteratesRegistered /\ [][ArrivalsWait]_vars

\* C34 witness: a broadcast is in the loop over a set that is not empty
\* while a connect or a disconnect waits for the lock.
C34_Witness ==
    /\ sockets.pc = "ready"
    /\ \E event \in 1..Len(sockets.events), websocket \in Connections :
          /\ sockets.events[event].pc = "send_text"
          /\ sockets.events[event].iterated # {}
          /\ sockets.connections[websocket].pc \in {"connect_wait", "disconnect_wait"}

\* C35: when broadcast returns, every connection whose send raised has been
\* removed from active_connections, every connection whose send succeeded is
\* still registered, no send was prevented by the failure of another, and
\* broadcast has not raised.
C35_FailedSendsRemoved ==
    [][sockets.pc = "ready" =>
         \A event \in 1..Len(sockets.events) :
             LET task == sockets'.events[event] IN
             (sockets.events[event].pc = "send_text" /\ task.pc = "done") =>
                 /\ task.error = ""
                 /\ task.disconnected \cap sockets'.active_connections = {}
                 /\ task.sent \subseteq sockets'.active_connections
                 /\ task.sent \cup task.disconnected = task.iterated]_vars

\* C35 witness: a broadcast has returned after one send that raised and one
\* that succeeded.
C35_Witness ==
    /\ sockets.pc = "ready"
    /\ \E event \in 1..Len(sockets.events) :
          /\ sockets.events[event].pc = "done"
          /\ sockets.events[event].error = ""
          /\ sockets.events[event].disconnected # {}
          /\ sockets.events[event].sent # {}

\* C37: no client receives the file_update message of a later dispatched
\* event before that of an earlier one.
C37_UpdatesInDispatchOrder ==
    sockets.pc = "ready" =>
        \A websocket \in Connections :
            LET received == sockets.connections[websocket].received IN
            \A i, j \in 1..Len(received) : i < j => received[i] < received[j]

\* C37 witness: a client has received the messages of both events while the
\* other client was connecting or disconnecting.
C37_Witness ==
    /\ sockets.pc = "ready"
    /\ \E websocket \in Connections :
          /\ Len(sockets.connections[websocket].received) = MaxEvents
          /\ \E other \in Connections \ {websocket} :
                sockets.connections[other].pc \in {"connect_wait", "disconnect_wait", "closed"}

----------------------------------------------------------------------------
(* Properties of MarkdownWebSocket.on_receive, checked under SpecFrames    *)

\* the reply the frame asks for
Asked(frame, message) ==
    IF frame.json = "object" /\ frame.members.type = JsonString("ping")
    THEN /\ message.type = "pong"
         /\ frame.members.timestamp # JsonMissing =>
               message.timestamp = frame.members.timestamp
    ELSE IF frame.json = "object" /\ frame.members.type = JsonString("subscribe")
    THEN /\ message.type = "subscribed"
         /\ message.channel = IF frame.members.channel = JsonMissing
                              THEN JsonString("all")
                              ELSE frame.members.channel
    ELSE message.type = "error"

\* C36: every text frame received produces exactly one reply, sent to the
\* sending socket only: a pong echoing the timestamp for type ping, a
\* subscribed message with the channel (default 'all') for type subscribe,
\* an error message for any other type, for invalid JSON and for JSON that
\* is not an object; on_receive never raises.
C36_OneReplyPerFrame ==
    (sockets.pc = "ready" /\ sockets.last.websocket # "") =>
        /\ sockets.last.raised = ""
        /\ Len(sockets.last.replies) = 1
        /\ sockets.last.replies[1].to = sockets.last.websocket
        /\ Asked(sockets.last.frame, sockets.last.replies[1].message)

\* C36 witness: JSON that is not an object was answered with an error while
\* the other socket was open as well.
C36_Witness ==
    /\ sockets.pc = "ready"
    /\ sockets.last.websocket # ""
    /\ sockets.last.frame.json \in {"array", "string", "number", "null", "true"}
    /\ Len(sockets.last.replies) = 1
    /\ sockets.last.replies[1].message.type = "error"
    /\ \A websocket \in Connections : sockets.connections[websocket].pc = "open"

----------------------------------------------------------------------------
(* Specifications                                                          *)

\* eviction and accounting: four keys, contents around the memory budget,
\* one mtime, the default ttl, a clock that stands still
Init == Construct(MaxSizes, {None}, MemoryMbs)

Next ==
    \/ \E key \in Keys : Get(key, Some(1))
    \/ \E key \in Keys, content \in Contents : Set(key, content, 1, None)
    \/ \E key \in Keys : Invalidate(key)
    \/ Clear

Spec == Init /\ [][Next]_vars

\* freshness: two keys, every mtime and ttl argument, a running clock
InitFresh == Construct(FreshMaxSizes, DefaultTtlArgs, MemoryMbs)

NextFresh ==
    \/ \E key \in FreshKeys, m \in GetMtimes : Get(key, m)
    \/ \E key \in FreshKeys, content \in FreshContents, m \in SetMtimes,
          ttl \in TtlArgs : Set(key, content, m, ttl)
    \/ \E key \in FreshKeys : Invalidate(key)
    \/ Clear
    \/ Tick

SpecFresh == InitFresh /\ [][NextFresh]_vars

\* contents larger than the budget: two keys, one mtime, the default ttl
InitOversized == Construct(FreshMaxSizes, {None}, MemoryMbs)

NextOversized ==
    \/ \E key \in FreshKeys : Get(key, Some(1))
    \/ \E key \in FreshKeys, content \in OversizedContents :
          Set(key, content, 1, None)
    \/ \E key \in FreshKeys : Invalidate(key)

SpecOversized == InitOversized /\ [][NextOversized]_vars

\* a PortFinder with any arguments, and any set of free ports
InitPorts == Construct({1}, {None}, MemoryMbs)

NextPorts ==
    \/ \E start_port \in StartPorts, max_attempts \in AttemptCounts,
          preferred_ports \in PreferredLists, free \in SUBSET ProbePorts :
          NewPortFinder(start_port, max_attempts, preferred_ports, free)
    \/ FindAvailablePort
    \/ ProbePreferred
    \/ ProbeRange

SpecPorts == InitPorts /\ [][NextPorts]_vars

\* one FileWatcher and the calls of its owner
InitWatcher == Construct({1}, {None}, MemoryMbs)

NextWatcher ==
    \/ \E exists \in BOOLEAN, recursive \in BOOLEAN :
          NewFileWatcher(exists, recursive)
    \/ \E started \in BOOLEAN : Start(started)
    \/ \E joined \in BOOLEAN : Stop(joined)
    \/ IsRunning

SpecWatcher == InitWatcher /\ [][NextWatcher]_vars

\* one MarkdownScanner and one scan of a tree
InitScanner == Construct({1}, {None}, MemoryMbs)

NextScanner ==
    \/ \E is_dir \in BOOLEAN, max_depth \in MaxDepths,
          exclude_dirs \in ExcludeLists, tree \in Trees :
          NewMarkdownScanner(is_dir, max_depth, exclude_dirs, tree)
    \/ Scan
    \/ WalkDir
    \/ ScanReturn

SpecScanner == InitScanner /\ [][NextScanner]_vars

\* the switch: any max_size, two keys, small contents, a running clock, the
\* switch turned off and on
InitSwitch == Construct(AnyMaxSizes, {None}, MemoryMbs)

NextSwitch ==
    \/ \E key \in FreshKeys, m \in SwitchGetMtimes : Get(key, m)
    \/ \E key \in FreshKeys, content \in SmallContents, ttl \in SwitchTtlArgs :
          Set(key, content, 1, ttl)
    \/ \E key \in FreshKeys : Invalidate(key)
    \/ Clear
    \/ Stats
    \/ Tick
    \/ \E b \in BOOLEAN : SetCacheEnabled(b)

SpecSwitch == InitSwitch /\ [][NextSwitch]_vars

\* two threads calling the cache at the same time, statement by statement
InitThreads == Construct(ThreadMaxSizes, {None}, MemoryMbs)

NextThreads ==
    \/ \E t \in Threads, key \in FreshKeys, m \in ThreadGetMtimes :
          CallGet(t, key, m)
    \/ \E t \in Threads, key \in FreshKeys, content \in SmallContents :
          CallSet(t, key, content, 1)
    \/ \E t \in Threads, key \in FreshKeys : CallInvalidate(t, key)
    \/ \E t \in Threads : CallClear(t)
    \/ \E t \in Threads : CallStats(t)
    \/ \E t \in Threads : Acquire(t)
    \/ \E t \in Threads : GetLookup(t)
    \/ \E t \in Threads : GetMove(t)
    \/ \E t \in Threads : GetTouch(t)
    \/ \E t \in Threads : EvictPop(t)
    \/ \E t \in Threads : EvictSub(t)
    \/ \E t \in Threads : SetOld(t)
    \/ \E t \in Threads : SetLoop(t)
    \/ \E t \in Threads : SetStore(t)
    \/ \E t \in Threads : SetAdd(t)
    \/ \E t \in Threads : InvCheck(t)
    \/ \E t \in Threads : ClearEntries(t)
    \/ \E t \in Threads : ClearSize(t)
    \/ \E t \in Threads : StatsAccess(t)
    \/ \E t \in Threads : StatsEntries(t)
    \/ \E t \in Threads : StatsMemory(t)
    \/ \E t \in Threads : Exit(t)

SpecThreads == InitThreads /\ [][NextThreads]_vars

\* two threads rendering a file that is saved with new texts meanwhile
InitRender == Construct(ThreadMaxSizes, {None}, MemoryMbs)

NextRender ==
    \/ \E t \in Threads, file_path \in RenderPaths : RenderFile(t, file_path)
    \/ \E t \in Threads : RenderRead(t)
    \/ \E t \in Threads : RenderStat(t)
    \/ \E t \in Threads : RenderCached(t)
    \/ \E t \in Threads : RenderConvert(t)
    \/ \E t \in Threads : RenderRestat(t)
    \/ \E t \in Threads : RenderReturn(t)
    \/ \E t \in Threads : RenderDone(t)
    \/ \E file_path \in RenderPaths, text \in Texts : ModifyFile(file_path, text)
    \/ \E t \in Threads : Acquire(t)
    \/ \E t \in Threads : GetLookup(t)
    \/ \E t \in Threads : GetMove(t)
    \/ \E t \in Threads : GetTouch(t)
    \/ \E t \in Threads : EvictPop(t)
    \/ \E t \in Threads : EvictSub(t)
    \/ \E t \in Threads : SetOld(t)
    \/ \E t \in Threads : SetLoop(t)
    \/ \E t \in Threads : SetStore(t)
    \/ \E t \in Threads : SetAdd(t)
    \/ \E t \in Threads : Exit(t)

SpecRender == InitRender /\ [][NextRender]_vars

\* one thread rendering a file that is saved with new texts between its
\* calls, from before the epoch on, while the clock runs
InitSerial == ConstructAt(ThreadMaxSizes, {None}, MemoryMbs, SerialMtimes)

SerialModifyFile(file_path, text) ==
    /\ \A t \in Threads : threads[t].pc = "idle"
    /\ ModifyFile(file_path, text)

NextSerial ==
    \/ \E file_path \in RenderPaths : RenderFile(Renderer, file_path)
    \/ RenderRead(Renderer)
    \/ RenderStat(Renderer)
    \/ RenderCached(Renderer)
    \/ RenderConvert(Renderer)
    \/ RenderRestat(Renderer)
    \/ RenderReturn(Renderer)
    \/ RenderDone(Renderer)
    \/ \E file_path \in RenderPaths, text \in Texts :
          SerialModifyFile(file_path, text)
    \/ Tick
    \/ Acquire(Renderer)
    \/ GetLookup(Renderer)
    \/ GetMove(Renderer)
    \/ GetTouch(Renderer)
    \/ EvictPop(Renderer)
    \/ EvictSub(Renderer)
    \/ SetOld(Renderer)
    \/ SetLoop(Renderer)
    \/ SetStore(Renderer)
    \/ SetAdd(Renderer)
    \/ Exit(Renderer)

SpecSerial == InitSerial /\ [][NextSerial]_vars

\* one thread rendering files that are saved and deleted at any moment
InitErrors == Construct(ThreadMaxSizes, {None}, MemoryMbs)

NextErrors ==
    \/ \E file_path \in RenderPaths : RenderFile(Renderer, file_path)
    \/ RenderRead(Renderer)
    \/ RenderStat(Renderer)
    \/ RenderCached(Renderer)
    \/ RenderConvert(Renderer)
    \/ RenderRestat(Renderer)
    \/ RenderReturn(Renderer)
    \/ RenderDone(Renderer)
    \/ \E file_path \in RenderPaths, text \in Texts : ModifyFile(file_path, text)
    \/ \E file_path \in RenderPaths : DeleteFile(file_path)
    \/ Acquire(Renderer)
    \/ GetLookup(Renderer)
    \/ GetMove(Renderer)
    \/ GetTouch(Renderer)
    \/ EvictPop(Renderer)
    \/ EvictSub(Renderer)
    \/ SetOld(Renderer)
    \/ SetLoop(Renderer)
    \/ SetStore(Renderer)
    \/ SetAdd(Renderer)
    \/ Exit(Renderer)

SpecErrors == InitErrors /\ [][NextErrors]_vars

\* one thread that calls render_file of the shared renderer and render of
\* renderers of its own, with and without a path, while the switch is
\* turned between the calls
InitPlain == Construct(ThreadMaxSizes, {None}, MemoryMbs)

PlainSetCacheEnabled(b) ==
    /\ \A t \in Threads : threads[t].pc = "idle"
    /\ SetCacheEnabled(b)

NextPlain ==
    \/ \E file_path \in RenderPaths : RenderFile(Renderer, file_path)
    \/ \E text \in Texts, file_path \in {None} \cup {Some(q) : q \in RenderPaths},
          use_cache_arg \in BOOLEAN :
          Render(Renderer, text, file_path, use_cache_arg)
    \/ RenderPlain(Renderer)
    \/ RenderRead(Renderer)
    \/ RenderStat(Renderer)
    \/ RenderCached(Renderer)
    \/ RenderConvert(Renderer)
    \/ RenderRestat(Renderer)
    \/ RenderReturn(Renderer)
    \/ RenderDone(Renderer)
    \/ \E b \in BOOLEAN : PlainSetCacheEnabled(b)
    \/ Acquire(Renderer)
    \/ GetLookup(Renderer)
    \/ GetMove(Renderer)
    \/ GetTouch(Renderer)
    \/ EvictPop(Renderer)
    \/ EvictSub(Renderer)
    \/ SetOld(Renderer)
    \/ SetLoop(Renderer)
    \/ SetStore(Renderer)
    \/ SetAdd(Renderer)
    \/ Exit(Renderer)

SpecPlain == InitPlain /\ [][NextPlain]_vars

\* one thread serving requests for a file that is saved and deleted at any
\* moment
InitRoutes == Construct(ThreadMaxSizes, {None}, MemoryMbs)

NextRoutes ==
    \/ \E file_path \in RenderPaths : GetFileContent(Renderer, file_path)
    \/ RouteRead(Renderer)
    \/ RouteRender(Renderer)
    \/ RouteProbe(Renderer)
    \/ RouteDone(Renderer)
    \/ RenderRead(Renderer)
    \/ RenderStat(Renderer)
    \/ RenderCached(Renderer)
    \/ RenderConvert(Renderer)
    \/ RenderRestat(Renderer)
    \/ RenderReturn(Renderer)
    \/ \E file_path \in RenderPaths, text \in Texts : ModifyFile(file_path, text)
    \/ \E file_path \in RenderPaths : DeleteFile(file_path)
    \/ \E b \in BOOLEAN : PlainSetCacheEnabled(b)
    \/ Acquire(Renderer)
    \/ GetLookup(Renderer)
    \/ GetMove(Renderer)
    \/ GetTouch(Renderer)
    \/ EvictPop(Renderer)
    \/ EvictSub(Renderer)
    \/ SetOld(Renderer)
    \/ SetLoop(Renderer)
    \/ SetStore(Renderer)
    \/ SetAdd(Renderer)
    \/ Exit(Renderer)

SpecRoutes == InitRoutes /\ [][NextRoutes]_vars

\* requests for the paths of RequestPaths while files come and go
InitPaths == Construct({1}, {None}, MemoryMbs)

NextPaths ==
    \/ \E route \in RouteNames, file_path \in RequestPaths :
          Serve(route, file_path)
    \/ \E place \in FilePlaces : ToggleFile(place)
    \/ ToggleLink

SpecPaths == InitPaths /\ [][NextPaths]_vars

\* connects, disconnects and the broadcasts of the file events on one loop
InitSockets == Construct({1}, {None}, MemoryMbs)

NextSockets ==
    \/ NewConnectionManager
    \/ \E websocket \in Connections : Connect(websocket)
    \/ \E websocket \in Connections : Accepted(websocket)
    \/ \E websocket \in Connections : ConnectLocked(websocket)
    \/ \E websocket \in Connections : Disconnect(websocket)
    \/ \E websocket \in Connections : DisconnectLocked(websocket)
    \/ Dispatch
    \/ \E event \in 1..MaxEvents : Broadcast(event)
    \/ \E event \in 1..MaxEvents : BroadcastLocked(event)
    \/ \E event \in 1..MaxEvents, sent \in BOOLEAN : SendText(event, sent)

SpecSockets == InitSockets /\ [][NextSockets]_vars

\* text frames on the accepted sockets
InitFrames == Construct({1}, {None}, MemoryMbs)

NextFrames ==
    \/ NewConnectionManager
    \/ \E websocket \in Connections : Connect(websocket)
    \/ \E websocket \in Connections : Accepted(websocket)
    \/ \E websocket \in Connections : Disconnect(websocket)
    \/ \E websocket \in Connections, frame \in Frames, sent \in BOOLEAN :
          Receive(websocket, frame, sent)

SpecFrames == InitFrames /\ [][NextFrames]_vars

====
